---- MODULE Spec2Model ----
(***************************************************************************)
(* Order placement, order status, returns and the approval gate of the     *)
(* commerce backend, as a state machine over the document store.           *)
(*                                                                         *)
(* Every request handler is a task that runs in steps: one step per        *)
(* awaited store operation (or a group of them that no other handler can   *)
(* tell apart), so that the steps of concurrent requests interleave the    *)
(* way the awaits of the Node.js handlers do.                              *)
(***************************************************************************)
EXTENDS Integers, Sequences, FiniteSets, TLC

(***************************************************************************)
(* Bounds of the model                                                     *)
(***************************************************************************)
\* quantities of a line item and of a manual adjustment: 1..MaxQty
MaxQty == 2
\* countInStock of every stock-keeping product in the initial store
InitStock == 2
\* handler invocations per behaviour of the inventory scenario
StockOps == 2
\* handler invocations per behaviour of the approval scenario
GateOps == 2
\* handler invocations per behaviour of the one-at-a-time scenario
ReplayOps == 2
\* handler invocations per behaviour of the payment scenario
PayOps == 2
\* the latest instant of the clock
MaxTime == 2
\* handler invocations per behaviour of the eligibility scenario
EligibleOps == 2
\* handler invocations per behaviour of the return workflow scenario
ReturnsOps == 2
\* handler invocations per behaviour of the create-then-cancel scenario
TripOps == 2
\* handler invocations per behaviour of the audit trail scenario
TrailOps == 2
\* handler invocations per behaviour of the checkout scenario
CheckoutOps == 2
\* handler invocations per behaviour of the pickup scenario
PickupOps == 2
\* handler invocations per behaviour of the failing-write scenario
FailureOps == 2
\* handler invocations per behaviour of the return-history scenario
HistoryOps == 2

\* product ids; "p3" is an id no product document carries at start
ProductIds == {"p1", "p2", "p3"}
\* concurrent request slots
Tasks == {1, 2}
\* principals and their role (User.role)
Users == {"cust", "admin1", "super"}
Role(u) == CASE u = "cust" -> "user"
             [] u = "super" -> "super_admin"
             [] OTHER -> "admin"

\* a timestamp that was never set (undefined in the document)
NoTime == 0
\* a reference that was never set (undefined in the document)
NoRef == 0

VARIABLES
    products,   \* Product collection: id -> [exists, countInStock, isStockEnabled]
    orders,     \* Order collection: sequence of documents, _id = index
    returns,    \* ReturnRequest collection: sequence of documents, _id = index
    approvals,  \* AdminApprovalRequest collection, _id = index
    audit,      \* AuditLog collection, in creation order
    fin,        \* FinancialRecord collection, in creation order
    now,        \* Date.now()
    task,       \* request slot -> the handler running in it and its locals
    ledger,     \* ghost: supplied[p], the units put on sale so far; expected[p],
                \* the stock the reservations and releases so far add up to;
                \* restored, the order lines restocked through a return
    ops,        \* ghost: number of handler invocations so far
    settings    \* Setting collection: the one settings document, if any

vars == <<products, orders, returns, approvals, audit, fin, now, task, ledger, ops,
          settings>>

Idle == [op |-> "idle", pc |-> "idle"]
Free(t) == task[t].pc \in {"idle", "done"}
Quiescent == \A t \in Tasks : Free(t)
\* a request is served in the first free slot (which slot is immaterial)
Accept(t) == Free(t) /\ \A u \in Tasks : Free(u) => t <= u

RECURSIVE SumSeq(_)
SumSeq(s) == IF s = <<>> THEN 0 ELSE Head(s) + SumSeq(Tail(s))

(***************************************************************************)
(* Documents                                                               *)
(***************************************************************************)
\* an element of orderItems as new Order({orderItems, ...}) takes it from the
\* request body: returnStatus is the body's when the body has one, else the
\* schema's default NONE
NewItem(line) ==
    [product |-> line.product, qty |-> line.qty,
     returnStatus |-> IF "returnStatus" \in DOMAIN line THEN line.returnStatus
                      ELSE "NONE",
     returnRequestId |-> NoRef]

\* the price of one unit of any product in the storefront
UnitPrice == 1

\* qty * price summed over the lines
ItemsTotal(qtys, prices) ==
    SumSeq([i \in DOMAIN qtys |-> qtys[i] * prices[i]])

\* the money fields the storefront sends for a cart: every line at the unit
\* price, no tax, no shipping, totalPrice their sum
FairBill(lines) ==
    LET prices == [i \in DOMAIN lines |-> UnitPrice] IN
    [prices |-> prices, taxPrice |-> 0, shippingPrice |-> 0,
     totalPrice |-> ItemsTotal([i \in DOMAIN lines |-> lines[i].qty], prices)]

\* orderSchema defaults: status CREATED, flags false
NewOrder(user, lines) ==
    [user |-> user,
     items |-> [i \in DOMAIN lines |-> NewItem(lines[i])],
     bill |-> FairBill(lines),
     status |-> "CREATED",
     isPaid |-> FALSE, isDelivered |-> FALSE, isCancelled |-> FALSE,
     paidAt |-> NoTime, deliveredAt |-> NoTime, cancelledAt |-> NoTime]

AuditEvent(orderId, action, from, to) ==
    [orderId |-> orderId, action |-> action, statusFrom |-> from, statusTo |-> to]

\* productSchema.returnPolicy with the schema's defaults
DefaultPolicy == [isReturnable |-> TRUE, returnWindowDays |-> 7]

\* the catalogue every scenario starts from: p1 keeps stock, p2 does not,
\* p3 is the id of a product that was deleted
Catalogue(policy) ==
    [p \in ProductIds |->
        [exists |-> p # "p3",
         countInStock |-> IF p = "p3" THEN 0 ELSE InitStock,
         isStockEnabled |-> p # "p2",
         returnPolicy |-> IF p = "p1" THEN policy ELSE DefaultPolicy]]

\* Setting.findOne() when no settings document was ever created
NoSettings == [exists |-> FALSE, areReturnsActive |-> TRUE]

\* item.qty as the request body carries it: the handler and the schema
\* (qty: {type: Number, required: true}) take any number, a negative one too
Quantities == {-1} \cup 1..MaxQty

\* line items of the stock-keeping product, in any quantity
StockLines == {[product |-> "p1", qty |-> q] : q \in Quantities}

\* line items a client may send: those, and one unit of a product that keeps
\* no stock or of an unknown product
Lines ==
    StockLines \cup {[product |-> p, qty |-> 1] : p \in ProductIds \ {"p1"}}

\* the carts of a checkout request: one line, or a line of the stock-keeping
\* product followed by any line
LineSeqs == {<<a>> : a \in Lines} \cup {<<a, b>> : a \in StockLines, b \in Lines}

\* the line items of the checkout scenario: the stock-keeping product in any
\* quantity, the product that keeps no stock in a quantity below and above
\* its counter, an unknown product, and a line whose returnStatus the client
\* has filled in
CartLines ==
    StockLines
        \cup {[product |-> "p2", qty |-> q] : q \in {1, InitStock + 1}}
        \cup {[product |-> "p3", qty |-> 1],
              [product |-> "p1", qty |-> 1, returnStatus |-> "REFUNDED"]}

\* the carts of the checkout scenario: one line, or a line that is accepted
\* when there is stock followed by a line of the stock-keeping product or of
\* the unknown one
Carts ==
    {<<a>> : a \in CartLines}
        \cup {<<a, b>> : a \in {[product |-> p, qty |-> 1] : p \in {"p1", "p2"}},
                         b \in StockLines \cup {[product |-> "p3", qty |-> 1]}}

\* the money fields a client may send with a cart: one unit of tax on top of
\* the lines, with the totalPrice that adds up or with a totalPrice of zero
Bills(lines) ==
    LET fair == FairBill(lines) IN
    {[fair EXCEPT !.taxPrice = 1, !.totalPrice = fair.totalPrice + 1],
     [fair EXCEPT !.taxPrice = 1, !.totalPrice = 0]}

(***************************************************************************)
(* InventoryLedger primitives (the store's atomic writes)                  *)
(***************************************************************************)
\* a filter that asks for more stock than the quantity: {$gt: qty}
ReserveMatchesAbove(p, qty) ==
    products[p].exists /\ products[p].countInStock > qty

\* Product.findOneAndUpdate({_id, countInStock: {$gte: qty}}, {$inc: -qty}):
\* whether the filter matches a document
ReserveMatches(p, qty) ==
    products[p].exists /\ products[p].countInStock >= qty

\* {$inc: {countInStock: d}} on product p
IncStock(p, d) ==
    IF products[p].exists THEN [products EXCEPT ![p].countInStock = @ + d]
    ELSE products

\* a rollback that gives back one unit whatever the entry's quantity
ReleaseOne(e) == IncStock(e.id, 1)

\* the catch block's write for one entry of stockUpdatedItems:
\* Product.findByIdAndUpdate(item.id, {$inc: {countInStock: item.qty}})
Release(e) == IncStock(e.id, e.qty)

\* ghost: what one step of a handler did to the stock counters
Delta(p) == products'[p].countInStock - products[p].countInStock

\* product.countInStock = v; product.save(): a $set of the value computed
\* from the copy the handler read earlier
SetStock(p, v) ==
    IF products[p].exists THEN [products EXCEPT ![p].countInStock = v]
    ELSE products

\* productSchema.countInStock, min: [0, ...]: the validator product.save() runs
StockValid(v) == v >= 0

\* ghost bookkeeping of a reservation (d < 0) or a release (d > 0)
Booked(p, d) ==
    [ledger EXCEPT !.expected[p] = @ + d]

\* ghost bookkeeping of a manual adjustment; supplied counts the additions
Supplied(p, d) ==
    [ledger EXCEPT !.expected[p] = @ + d,
                   !.supplied[p] = IF d > 0 THEN @ + d ELSE @]

\* ghost bookkeeping of a return's restock of line k of order o
Restored(p, d, o, k) ==
    [ledger EXCEPT !.expected[p] = @ + d, !.restored = @ \cup {<<o, k>>}]

(***************************************************************************)
(* addOrderItems: POST /api/orders                                         *)
(***************************************************************************)
\* the request arrives; the reservation loop starts at the first line
AddOrderItems(t, user, lines, bill) ==
    /\ Accept(t)
    /\ task' = [task EXCEPT ![t] =
          [op |-> "addOrderItems", pc |-> "reserve", user |-> user,
           lines |-> lines, bill |-> bill, i |-> 1, stockUpdatedItems |-> <<>>,
           net |-> [p \in ProductIds |-> 0], undone |-> 0,
           created |-> NoRef, res |-> 0]]
    /\ UNCHANGED <<products, orders, returns, approvals, audit, fin, now, ledger, settings>>

\* one pass of the for-loop: look the product up, reserve its quantity
ReserveLine(t) ==
    LET l == task[t]
        line == l.lines[l.i]
        p == line.product
        next == IF l.i = Len(l.lines) THEN "save" ELSE "reserve"
    IN
    /\ l.op = "addOrderItems" /\ l.pc = "reserve"
    /\ IF ~products[p].exists
       THEN \* Product not found: 404, to the catch block
            /\ task' = [task EXCEPT ![t].pc = "rollback", ![t].res = 404]
            /\ UNCHANGED <<products, ledger>>
       ELSE IF products[p].isStockEnabled
       THEN IF ReserveMatches(p, line.qty)
            THEN /\ products' = IncStock(p, -line.qty)
                 /\ ledger' = Booked(p, -line.qty)
                 /\ task' = [task EXCEPT
                       ![t].stockUpdatedItems =
                           Append(@, [id |-> p, qty |-> line.qty]),
                       ![t].net = [@ EXCEPT ![p] = @ + Delta(p)],
                       ![t].i = @ + 1, ![t].pc = next]
            ELSE \* Insufficient stock: 400, to the catch block
                 /\ task' = [task EXCEPT ![t].pc = "rollback", ![t].res = 400]
                 /\ UNCHANGED <<products, ledger>>
       ELSE \* stock not enforced: the line is accepted, nothing is written
            /\ task' = [task EXCEPT ![t].i = @ + 1, ![t].pc = next]
            /\ UNCHANGED <<products, ledger>>
    /\ UNCHANGED <<orders, returns, approvals, audit, fin, now, settings>>

\* new Order({...}).save(): it resolves (saved) or rejects (a validation or
\* store error)
SaveOrder(t, saved) ==
    LET l == task[t] IN
    /\ l.op = "addOrderItems" /\ l.pc = "save"
    /\ IF saved
       THEN /\ orders' = Append(orders,
                  [NewOrder(l.user, l.lines) EXCEPT !.bill = l.bill])
            /\ task' = [task EXCEPT ![t] =
                  [op |-> "addOrderItems", pc |-> "done", res |-> 201,
                   net |-> l.net, undone |-> 0, created |-> Len(orders) + 1]]
       ELSE /\ task' = [task EXCEPT ![t].pc = "rollback", ![t].res = 500]
            /\ UNCHANGED orders
    /\ UNCHANGED <<products, returns, approvals, audit, fin, now, ledger, settings>>

\* the catch block: one $inc per entry of stockUpdatedItems, then rethrow
RollbackLine(t) ==
    LET l == task[t] IN
    /\ l.op = "addOrderItems" /\ l.pc = "rollback"
    /\ IF l.stockUpdatedItems = <<>>
       THEN /\ task' = [task EXCEPT ![t] =
                  [op |-> "addOrderItems", pc |-> "done", res |-> l.res,
                   net |-> l.net, undone |-> l.undone, created |-> l.created]]
            /\ UNCHANGED <<products, ledger>>
       ELSE LET e == Head(l.stockUpdatedItems) IN
            /\ products' = Release(e)
            /\ ledger' = Booked(e.id, e.qty)
            /\ task' = [task EXCEPT
                  ![t].stockUpdatedItems = Tail(@),
                  ![t].undone = @ + 1,
                  ![t].net = [@ EXCEPT ![e.id] = @ + Delta(e.id)]]
    /\ UNCHANGED <<orders, returns, approvals, audit, fin, now, settings>>

(***************************************************************************)
(* cancelOrder: PUT /api/orders/:id/cancel                                 *)
(***************************************************************************)
\* Order.findById, the two guards, the audit entry
CancelOrder(t, user, o) ==
    /\ Accept(t)
    /\ IF o \notin DOMAIN orders
       THEN /\ task' = [task EXCEPT ![t] =
                  [op |-> "cancelOrder", pc |-> "done", order |-> o, res |-> 404]]
            /\ UNCHANGED audit
       ELSE IF orders[o].isDelivered \/ orders[o].isCancelled
       THEN /\ task' = [task EXCEPT ![t] =
                  [op |-> "cancelOrder", pc |-> "done", order |-> o, res |-> 400]]
            /\ UNCHANGED audit
       ELSE /\ audit' = Append(audit,
                  AuditEvent(o, "ORDER_CANCELLED", orders[o].status, "CANCELLED"))
            /\ task' = [task EXCEPT ![t] =
                  [op |-> "cancelOrder", pc |-> "save", order |-> o,
                   items |-> orders[o].items,
                   toRead |-> DOMAIN orders[o].items,
                   read |-> [k \in {} |-> 0], res |-> 0]]
    /\ UNCHANGED <<products, orders, returns, approvals, fin, now, ledger, settings>>

\* order.save(): the three modified paths
CancelSave(t) ==
    LET l == task[t] IN
    /\ l.op = "cancelOrder" /\ l.pc = "save"
    /\ orders' = [orders EXCEPT ![l.order].isCancelled = TRUE,
                                ![l.order].status = "CANCELLED",
                                ![l.order].cancelledAt = now]
    /\ task' = [task EXCEPT ![t].pc = "restore"]
    /\ UNCHANGED <<products, returns, approvals, audit, fin, now, ledger, settings>>

\* stockRestoration, first half of one item's callback: Product.findById
CancelReadProduct(t, k) ==
    LET l == task[t] IN
    /\ l.op = "cancelOrder" /\ l.pc = "restore"
    /\ k \in l.toRead
    /\ LET p == l.items[k].product IN
       IF products[p].exists
       THEN task' = [task EXCEPT
                ![t].toRead = @ \ {k},
                ![t].read = [j \in DOMAIN @ \cup {k} |->
                               IF j = k THEN products[p].countInStock ELSE @[j]]]
       ELSE task' = [task EXCEPT ![t].toRead = @ \ {k}]
    /\ UNCHANGED <<products, orders, returns, approvals, audit, fin, now, ledger, settings>>

\* second half: product.countInStock += item.qty; product.save()
CancelWriteProduct(t, k) ==
    LET l == task[t] IN
    /\ l.op = "cancelOrder" /\ l.pc = "restore"
    /\ k \in DOMAIN l.read
    /\ LET p == l.items[k].product
           v == l.read[k] + l.items[k].qty
       IN
       IF StockValid(v)
       THEN /\ products' = SetStock(p, v)
            /\ ledger' = Booked(p, l.items[k].qty)
            /\ task' = [task EXCEPT
                  ![t].read = [j \in DOMAIN @ \ {k} |-> @[j]]]
       ELSE \* the save is rejected: Promise.all rejects, the answer is 500
            /\ task' = [task EXCEPT
                  ![t].read = [j \in DOMAIN @ \ {k} |-> @[j]],
                  ![t].res = 500]
            /\ UNCHANGED <<products, ledger>>
    /\ UNCHANGED <<orders, returns, approvals, audit, fin, now, settings>>

\* Promise.all resolved: the response
CancelDone(t) ==
    LET l == task[t] IN
    /\ l.op = "cancelOrder" /\ l.pc = "restore"
    /\ l.toRead = {} /\ DOMAIN l.read = {}
    /\ task' = [task EXCEPT ![t] =
          [op |-> "cancelOrder", pc |-> "done", order |-> l.order,
           res |-> IF l.res = 500 THEN 500 ELSE 200]]
    /\ UNCHANGED <<products, orders, returns, approvals, audit, fin, now, ledger, settings>>

(***************************************************************************)
(* updateStockManual: PATCH /api/products/:id/stock                        *)
(***************************************************************************)
UpdateStockManual(t, p, qtyChange) ==
    /\ Accept(t)
    /\ IF ~products[p].exists
       THEN /\ task' = [task EXCEPT ![t] =
                  [op |-> "updateStockManual", pc |-> "done", res |-> 404]]
            /\ UNCHANGED <<products, ledger>>
       ELSE IF qtyChange < 0 /\ ~(products[p].countInStock >= -qtyChange)
       THEN /\ task' = [task EXCEPT ![t] =
                  [op |-> "updateStockManual", pc |-> "done", res |-> 400]]
            /\ UNCHANGED <<products, ledger>>
       ELSE /\ products' = IncStock(p, qtyChange)
            /\ ledger' = Supplied(p, qtyChange)
            /\ task' = [task EXCEPT ![t] =
                  [op |-> "updateStockManual", pc |-> "done", res |-> 200]]
    /\ UNCHANGED <<orders, returns, approvals, audit, fin, now, settings>>

(***************************************************************************)
(* Returns and approvals: documents and lookups                            *)
(***************************************************************************)
ReturnStatuses ==
    {"REQUESTED", "APPROVED", "REJECTED", "PICKUP_SCHEDULED", "PICKED_UP",
     "REFUNDED", "REPLACED", "COMPLETED"}

\* the statuses a non-super admin may not set directly
GatedStatuses == {"APPROVED", "REFUNDED", "REJECTED", "REPLACED", "COMPLETED"}

\* the statuses with which restoreInventory takes effect
RestockStatuses == {"REFUNDED", "REPLACED", "APPROVED"}

\* req.body of updateReturnStatus, stored verbatim as requestData
Payloads(statuses, amounts) ==
    [status : statuses, refundAmount : amounts, restoreInventory : BOOLEAN]

NewReturn(o, user, item, status) ==
    [order |-> o, user |-> user, product |-> item.product, qty |-> item.qty,
     status |-> status, refundAmount |-> 0, history |-> <<status>>]

NewApproval(admin, action, model, target, data) ==
    [admin |-> admin, action |-> action, targetModel |-> model,
     targetId |-> target, requestData |-> data, status |-> "PENDING",
     approvedBy |-> "", rejectionReason |-> ""]

RefundRecord(r, amount, by) ==
    [type |-> "REFUND", model |-> "ReturnRequest", id |-> r,
     amount |-> amount, createdBy |-> by]

\* AdminApprovalRequest.findOne({targetId, status: 'PENDING', action})
PendingExists(action, target) ==
    \E a \in DOMAIN approvals :
        /\ approvals[a].action = action
        /\ approvals[a].targetId = target
        /\ approvals[a].status = "PENDING"

\* order.orderItems.find(i => i.product === returnReq.orderItem.product):
\* the first line of that product, 0 when there is none
FindItem(o, p) ==
    LET ks == {k \in DOMAIN orders[o].items : orders[o].items[k].product = p}
    IN IF ks = {} THEN 0 ELSE CHOOSE k \in ks : \A j \in ks : k <= j

\* ghost: what a status change of return r (line k of order o) can touch
View(r, o, k) ==
    [status |-> returns[r].status,
     refundAmount |-> returns[r].refundAmount,
     history |-> Len(returns[r].history),
     line |-> IF k = 0 THEN "" ELSE orders[o].items[k].returnStatus,
     stock |-> IF k = 0 THEN 0
               ELSE products[orders[o].items[k].product].countInStock,
     refunds |-> Cardinality({i \in DOMAIN fin : fin[i].id = r}),
     audits |-> Len(audit)]

\* document.save() of a scalar path: written only if the handler changed it
Saved(cur, read, new) == IF new # read THEN new ELSE cur

(***************************************************************************)
(* updateReturnStatus: PUT /api/returns/:id/status                         *)
(***************************************************************************)
\* a gate that lets a non-super admin set REFUNDED directly
NeedsApprovalButRefund(user, status) ==
    Role(user) # "super_admin" /\ status \in GatedStatuses \ {"REFUNDED"}

\* req.user.role !== 'super_admin' && (status === 'APPROVED' || ...)
NeedsApproval(user, status) ==
    Role(user) # "super_admin" /\ status \in GatedStatuses

\* findById, the approval gate's lookup, Order.findById and the line lookup
UpdateReturnStatus(t, user, r, body) ==
    /\ Accept(t)
    /\ IF r \notin DOMAIN returns
       THEN task' = [task EXCEPT ![t] =
                [op |-> "updateReturnStatus", pc |-> "done", res |-> 404,
                 user |-> user, ret |-> r, body |-> body]]
       ELSE IF NeedsApproval(user, body.status)
       THEN IF PendingExists("APPROVE_RETURN", r)
            THEN task' = [task EXCEPT ![t] =
                     [op |-> "updateReturnStatus", pc |-> "done", res |-> 400,
                      user |-> user, ret |-> r, body |-> body]]
            ELSE task' = [task EXCEPT ![t] =
                     [op |-> "updateReturnStatus", pc |-> "gate", user |-> user,
                      ret |-> r, body |-> body]]
       ELSE LET o == returns[r].order
                k == FindItem(o, returns[r].product)
            IN task' = [task EXCEPT ![t] =
                   [op |-> "updateReturnStatus", pc |-> "saveReturn",
                    user |-> user, ret |-> r, body |-> body,
                    doc |-> returns[r], order |-> o, item |-> k,
                    pre |-> View(r, o, k),
                    line |-> IF k = 0 THEN NewItem([product |-> "p3", qty |-> 0])
                             ELSE orders[o].items[k],
                    stock |-> 0]]
    /\ UNCHANGED <<products, orders, returns, approvals, audit, fin, now, ledger, settings>>

\* AdminApprovalRequest.create({... status: 'PENDING'}) and the 202 response
GateReturn(t) ==
    LET l == task[t] IN
    /\ l.op = "updateReturnStatus" /\ l.pc = "gate"
    /\ approvals' = Append(approvals,
          NewApproval(l.user, "APPROVE_RETURN", "ReturnRequest", l.ret, l.body))
    /\ task' = [task EXCEPT ![t] =
          [op |-> "updateReturnStatus", pc |-> "done", res |-> 202,
           user |-> l.user, ret |-> l.ret, body |-> l.body]]
    /\ UNCHANGED <<products, orders, returns, audit, fin, now, ledger, settings>>

\* what the handler does once its writes of the return and the line are out
AfterLine(l) ==
    IF l.body.restoreInventory /\ l.body.status \in RestockStatuses /\ l.item # 0
    THEN "readProduct" ELSE "finish"

\* returnReq.status = status; refundAmount; history.push; returnReq.save()
SaveReturn(t) ==
    LET l == task[t]
        b == l.body
    IN
    /\ l.op = "updateReturnStatus" /\ l.pc = "saveReturn"
    /\ returns' = [returns EXCEPT
          ![l.ret].status = Saved(@, l.doc.status, b.status),
          ![l.ret].refundAmount =
              IF b.refundAmount # 0
              THEN Saved(@, l.doc.refundAmount, b.refundAmount) ELSE @,
          ![l.ret].history = Append(@, b.status)]
    /\ task' = [task EXCEPT
          ![t].pc = IF l.item # 0 THEN "saveLine" ELSE AfterLine(l),
          ![t].doc.refundAmount =
              IF b.refundAmount # 0 THEN b.refundAmount ELSE @]
    /\ UNCHANGED <<products, orders, approvals, audit, fin, now, ledger, settings>>

\* item.returnStatus = status; order.save()
SaveLine(t) ==
    LET l == task[t] IN
    /\ l.op = "updateReturnStatus" /\ l.pc = "saveLine"
    /\ orders' = [orders EXCEPT ![l.order].items[l.item].returnStatus =
                        Saved(@, l.line.returnStatus, l.body.status)]
    /\ task' = [task EXCEPT ![t].pc = AfterLine(l)]
    /\ UNCHANGED <<products, returns, approvals, audit, fin, now, ledger, settings>>

\* Product.findById(item.product)
ReadProduct(t) ==
    LET l == task[t]
        p == l.line.product
    IN
    /\ l.op = "updateReturnStatus" /\ l.pc = "readProduct"
    /\ task' = [task EXCEPT
          ![t].pc = IF products[p].exists THEN "writeProduct" ELSE "finish",
          ![t].stock = products[p].countInStock]
    /\ UNCHANGED <<products, orders, returns, approvals, audit, fin, now, ledger, settings>>

\* product.countInStock = (product.countInStock || 0) + item.qty;
\* product.save(); the INVENTORY_RESTORED entry
WriteProduct(t) ==
    LET l == task[t]
        p == l.line.product
    IN
    /\ l.op = "updateReturnStatus" /\ l.pc = "writeProduct"
    /\ IF StockValid(l.stock + l.line.qty)
       THEN /\ products' = SetStock(p, l.stock + l.line.qty)
            /\ ledger' = Restored(p, l.line.qty, l.order, l.item)
            /\ audit' = Append(audit,
                  AuditEvent(l.order, "INVENTORY_RESTORED", "", ""))
            /\ task' = [task EXCEPT ![t].pc = "finish"]
       ELSE \* the save is rejected: the handler answers 500
            /\ task' = [task EXCEPT ![t] =
                  [op |-> "updateReturnStatus", pc |-> "done", res |-> 500,
                   user |-> l.user, ret |-> l.ret, body |-> l.body]]
            /\ UNCHANGED <<products, ledger, audit>>
    /\ UNCHANGED <<orders, returns, approvals, fin, now, settings>>

\* the RETURN_<status> entry, the REFUND record, the response
FinishReturn(t) ==
    LET l == task[t] IN
    /\ l.op = "updateReturnStatus" /\ l.pc = "finish"
    /\ audit' = Append(audit, AuditEvent(l.order, "RETURN_" \o l.body.status, "", ""))
    /\ fin' = IF l.body.status = "REFUNDED"
              THEN Append(fin, RefundRecord(l.ret, l.doc.refundAmount, l.user))
              ELSE fin
    /\ task' = [task EXCEPT ![t] =
          [op |-> "updateReturnStatus", pc |-> "done", res |-> 200,
           user |-> l.user, ret |-> l.ret, body |-> l.body,
           order |-> l.order, item |-> l.item, pre |-> l.pre]]
    /\ UNCHANGED <<products, orders, returns, approvals, now, ledger, settings>>

(***************************************************************************)
(* approveRequest: PUT /api/admin/management/approvals/:id/approve         *)
(***************************************************************************)
\* findById, the PENDING guard, the switch on approval.action and, for
\* APPROVE_RETURN, the lookups of the return, its order and the line
ApproveRequest(t, user, a) ==
    /\ Accept(t)
    /\ IF a \notin DOMAIN approvals
       THEN task' = [task EXCEPT ![t] =
                [op |-> "approveRequest", pc |-> "done", res |-> 404,
                 approval |-> a]]
       ELSE IF approvals[a].status # "PENDING"
       THEN task' = [task EXCEPT ![t] =
                [op |-> "approveRequest", pc |-> "done", res |-> 400,
                 approval |-> a]]
       ELSE IF approvals[a].action = "DELETE_PRODUCT"
       THEN task' = [task EXCEPT ![t] =
                [op |-> "approveRequest", pc |-> "deleteTarget", user |-> user,
                 approval |-> a]]
       ELSE IF approvals[a].action = "APPROVE_RETURN"
               /\ approvals[a].targetId \in DOMAIN returns
       THEN LET r == approvals[a].targetId
                o == returns[r].order
                k == FindItem(o, returns[r].product)
            IN task' = [task EXCEPT ![t] =
                   [op |-> "approveRequest", pc |-> "saveReturn", user |-> user,
                    approval |-> a, ret |-> r, body |-> approvals[a].requestData,
                    doc |-> returns[r], order |-> o, item |-> k,
                    pre |-> View(r, o, k),
                    line |-> IF k = 0 THEN NewItem([product |-> "p3", qty |-> 0])
                             ELSE orders[o].items[k],
                    stock |-> 0]]
       ELSE task' = [task EXCEPT ![t] =
                [op |-> "approveRequest", pc |-> "resolve", user |-> user,
                 approval |-> a]]
    /\ UNCHANGED <<products, orders, returns, approvals, audit, fin, now, ledger, settings>>

\* case 'DELETE_PRODUCT': Product.findById(targetId), product.deleteOne()
ReplayDelete(t) ==
    LET l == task[t]
        p == approvals[l.approval].targetId
    IN
    /\ l.op = "approveRequest" /\ l.pc = "deleteTarget"
    /\ products' = [products EXCEPT ![p].exists = FALSE, ![p].countInStock = 0]
    /\ task' = [task EXCEPT ![t].pc = "resolve"]
    /\ UNCHANGED <<orders, returns, approvals, audit, fin, now, ledger, settings>>

\* case 'APPROVE_RETURN': returnReq.status = status; ...; returnReq.save()
ReplaySaveReturn(t) ==
    LET l == task[t]
        b == l.body
    IN
    /\ l.op = "approveRequest" /\ l.pc = "saveReturn"
    /\ returns' = [returns EXCEPT
          ![l.ret].status = Saved(@, l.doc.status, b.status),
          ![l.ret].refundAmount =
              IF b.refundAmount # 0
              THEN Saved(@, l.doc.refundAmount, b.refundAmount) ELSE @,
          ![l.ret].history = Append(@, b.status)]
    /\ task' = [task EXCEPT
          ![t].pc = IF l.item # 0 THEN "saveLine" ELSE AfterLine(l)]
    /\ UNCHANGED <<products, orders, approvals, audit, fin, now, ledger, settings>>

\* item.returnStatus = status; order.save()
ReplaySaveLine(t) ==
    LET l == task[t] IN
    /\ l.op = "approveRequest" /\ l.pc = "saveLine"
    /\ orders' = [orders EXCEPT ![l.order].items[l.item].returnStatus =
                        Saved(@, l.line.returnStatus, l.body.status)]
    /\ task' = [task EXCEPT ![t].pc = AfterLine(l)]
    /\ UNCHANGED <<products, returns, approvals, audit, fin, now, ledger, settings>>

\* Product.findById(item.product)
ReplayReadProduct(t) ==
    LET l == task[t]
        p == l.line.product
    IN
    /\ l.op = "approveRequest" /\ l.pc = "readProduct"
    /\ task' = [task EXCEPT
          ![t].pc = IF products[p].exists THEN "writeProduct" ELSE "finish",
          ![t].stock = products[p].countInStock]
    /\ UNCHANGED <<products, orders, returns, approvals, audit, fin, now, ledger, settings>>

\* productItem.countInStock = (productItem.countInStock || 0) + item.qty;
\* productItem.save(); the INVENTORY_RESTORED entry
ReplayWriteProduct(t) ==
    LET l == task[t]
        p == l.line.product
    IN
    /\ l.op = "approveRequest" /\ l.pc = "writeProduct"
    /\ IF StockValid(l.stock + l.line.qty)
       THEN /\ products' = SetStock(p, l.stock + l.line.qty)
            /\ ledger' = Restored(p, l.line.qty, l.order, l.item)
            /\ audit' = Append(audit,
                  AuditEvent(l.order, "INVENTORY_RESTORED", "", ""))
            /\ task' = [task EXCEPT ![t].pc = "finish"]
       ELSE \* the save is rejected: 500, the approval stays as it is
            /\ task' = [task EXCEPT ![t] =
                  [op |-> "approveRequest", pc |-> "done", res |-> 500]]
            /\ UNCHANGED <<products, ledger, audit>>
    /\ UNCHANGED <<orders, returns, approvals, fin, now, settings>>

\* the RETURN_<status> entry that ends the APPROVE_RETURN case
ReplayLog(t) ==
    LET l == task[t] IN
    /\ l.op = "approveRequest" /\ l.pc = "finish"
    /\ audit' = Append(audit, AuditEvent(l.order, "RETURN_" \o l.body.status, "", ""))
    /\ task' = [task EXCEPT ![t].pc = "resolve"]
    /\ UNCHANGED <<products, orders, returns, approvals, fin, now, ledger, settings>>

\* approval.status = 'APPROVED'; approval.approvedBy; approval.save()
ResolveApproved(t) ==
    LET l == task[t] IN
    /\ l.op = "approveRequest" /\ l.pc = "resolve"
    /\ approvals' = [approvals EXCEPT ![l.approval].status = "APPROVED",
                                      ![l.approval].approvedBy = l.user]
    /\ task' = [task EXCEPT ![t] =
          IF approvals[l.approval].action = "APPROVE_RETURN"
             /\ approvals[l.approval].targetId \in DOMAIN returns
          THEN [op |-> "approveRequest", pc |-> "done", res |-> 200,
                approval |-> l.approval, ret |-> l.ret, body |-> l.body,
                order |-> l.order, item |-> l.item, pre |-> l.pre]
          ELSE [op |-> "approveRequest", pc |-> "done", res |-> 200,
                approval |-> l.approval]]
    /\ UNCHANGED <<products, orders, returns, audit, fin, now, ledger, settings>>

(***************************************************************************)
(* rejectRequest: PUT /api/admin/management/approvals/:id/reject           *)
(***************************************************************************)
\* AdminApprovalRequest.findById
RejectRequest(t, user, a, reason) ==
    /\ Accept(t)
    /\ IF a \notin DOMAIN approvals
       THEN task' = [task EXCEPT ![t] =
                [op |-> "rejectRequest", pc |-> "done", res |-> 404,
                 approval |-> a]]
       ELSE task' = [task EXCEPT ![t] =
                [op |-> "rejectRequest", pc |-> "save", user |-> user,
                 approval |-> a, reason |-> reason]]
    /\ UNCHANGED <<products, orders, returns, approvals, audit, fin, now, ledger, settings>>

\* a rejection that also marks the return it was about as rejected
ResolveRejectedAndReturn(t) ==
    LET l == task[t]
        r == approvals[l.approval].targetId
    IN
    /\ l.op = "rejectRequest" /\ l.pc = "save"
    /\ approvals' = [approvals EXCEPT ![l.approval].status = "REJECTED",
                                      ![l.approval].approvedBy = l.user,
                                      ![l.approval].rejectionReason = l.reason]
    /\ returns' = IF approvals[l.approval].action = "APPROVE_RETURN"
                     /\ r \in DOMAIN returns
                  THEN [returns EXCEPT ![r].status = "REJECTED"]
                  ELSE returns
    /\ task' = [task EXCEPT ![t] =
          [op |-> "rejectRequest", pc |-> "done", res |-> 200,
           approval |-> l.approval]]
    /\ UNCHANGED <<products, orders, audit, fin, now, ledger, settings>>

\* approval.status = 'REJECTED'; approvedBy; rejectionReason; approval.save()
ResolveRejected(t) ==
    LET l == task[t] IN
    /\ l.op = "rejectRequest" /\ l.pc = "save"
    /\ approvals' = [approvals EXCEPT ![l.approval].status = "REJECTED",
                                      ![l.approval].approvedBy = l.user,
                                      ![l.approval].rejectionReason = l.reason]
    /\ task' = [task EXCEPT ![t] =
          [op |-> "rejectRequest", pc |-> "done", res |-> 200,
           approval |-> l.approval]]
    /\ UNCHANGED <<products, orders, returns, audit, fin, now, ledger, settings>>

(***************************************************************************)
(* deleteProduct: DELETE /api/products/:id                                 *)
(***************************************************************************)
\* Product.findById; for a non-super admin the gate's lookup, for the super
\* admin product.deleteOne()
DeleteProduct(t, user, p) ==
    /\ Accept(t)
    /\ IF ~products[p].exists
       THEN /\ task' = [task EXCEPT ![t] =
                  [op |-> "deleteProduct", pc |-> "done", res |-> 404]]
            /\ UNCHANGED products
       ELSE IF Role(user) # "super_admin"
       THEN /\ IF PendingExists("DELETE_PRODUCT", p)
               THEN task' = [task EXCEPT ![t] =
                        [op |-> "deleteProduct", pc |-> "done", res |-> 400]]
               ELSE task' = [task EXCEPT ![t] =
                        [op |-> "deleteProduct", pc |-> "gate", user |-> user,
                         product |-> p]]
            /\ UNCHANGED products
       ELSE /\ products' = [products EXCEPT ![p].exists = FALSE,
                                            ![p].countInStock = 0]
            /\ task' = [task EXCEPT ![t] =
                  [op |-> "deleteProduct", pc |-> "done", res |-> 200]]
    /\ UNCHANGED <<orders, returns, approvals, audit, fin, now, ledger, settings>>

\* AdminApprovalRequest.create({action: 'DELETE_PRODUCT', ...}), the 202
GateDelete(t) ==
    LET l == task[t] IN
    /\ l.op = "deleteProduct" /\ l.pc = "gate"
    /\ approvals' = Append(approvals,
          NewApproval(l.user, "DELETE_PRODUCT", "Product", l.product,
                      [reason |-> "Admin requested deletion via dashboard"]))
    /\ task' = [task EXCEPT ![t] =
          [op |-> "deleteProduct", pc |-> "done", res |-> 202]]
    /\ UNCHANGED <<products, orders, returns, audit, fin, now, ledger, settings>>

(***************************************************************************)
(* Order status handlers                                                   *)
(***************************************************************************)
OrderStatuses ==
    {"CREATED", "PAID", "PAYMENT_FAILED", "READY_TO_SHIP", "SHIPPED",
     "OUT_FOR_DELIVERY", "DELIVERED", "CANCELLED", "RETURNED", "REFUNDED"}

\* order.save(): every path the handler changed on its copy is written, every
\* other path keeps what the store holds
StoreOrder(o, read, new) ==
    LET cur == orders[o] IN
    [orders EXCEPT ![o] =
        [user |-> cur.user,
         bill |-> cur.bill,
         items |-> [k \in DOMAIN cur.items |->
            [product |-> cur.items[k].product,
             qty |-> cur.items[k].qty,
             returnStatus |-> Saved(cur.items[k].returnStatus,
                                    read.items[k].returnStatus,
                                    new.items[k].returnStatus),
             returnRequestId |-> Saved(cur.items[k].returnRequestId,
                                       read.items[k].returnRequestId,
                                       new.items[k].returnRequestId)]],
         status |-> Saved(cur.status, read.status, new.status),
         isPaid |-> Saved(cur.isPaid, read.isPaid, new.isPaid),
         isDelivered |-> Saved(cur.isDelivered, read.isDelivered, new.isDelivered),
         isCancelled |-> Saved(cur.isCancelled, read.isCancelled, new.isCancelled),
         paidAt |-> Saved(cur.paidAt, read.paidAt, new.paidAt),
         deliveredAt |-> Saved(cur.deliveredAt, read.deliveredAt, new.deliveredAt),
         cancelledAt |-> Saved(cur.cancelledAt, read.cancelledAt, new.cancelledAt)]]

\* a handler that answered at once; wasPaid is order.isPaid as it was read
Answered(op, o, status, paid, res) ==
    [op |-> op, pc |-> "done", order |-> o, status |-> status,
     wasPaid |-> paid, wrote |-> FALSE, res |-> res]

\* a handler about to save the copy it changed
Saving(op, o, status, read, new) ==
    [op |-> op, pc |-> "save", order |-> o, status |-> status,
     doc |-> read, new |-> new, wasPaid |-> read.isPaid, i |-> 1]

\* the response after order.save(); wrote tells whether the save changed
\* the stored order
Written(l, res) ==
    [op |-> l.op, pc |-> "done", order |-> l.order, status |-> l.status,
     wasPaid |-> l.wasPaid,
     wrote |-> StoreOrder(l.order, l.doc, l.new) # orders, res |-> res]

\* updateOrderToPaid: Order.findById, the isPaid guard, the assignments and
\* the PAYMENT_RECEIVED entry (written before the save)
UpdateOrderToPaid(t, user, o) ==
    /\ Accept(t)
    /\ IF o \notin DOMAIN orders
       THEN /\ task' = [task EXCEPT ![t] =
                  Answered("updateOrderToPaid", o, "PAID", FALSE, 404)]
            /\ UNCHANGED audit
       ELSE IF orders[o].isPaid
       THEN /\ task' = [task EXCEPT ![t] =
                  Answered("updateOrderToPaid", o, "PAID", TRUE, 400)]
            /\ UNCHANGED audit
       ELSE /\ audit' = Append(audit, AuditEvent(o, "PAYMENT_RECEIVED", "CREATED", "PAID"))
            /\ task' = [task EXCEPT ![t] =
                  Saving("updateOrderToPaid", o, "PAID", orders[o],
                         [orders[o] EXCEPT !.isPaid = TRUE, !.status = "PAID",
                                           !.paidAt = now])]
    /\ UNCHANGED <<products, orders, returns, approvals, fin, now, ledger, settings>>

\* updateOrderToDelivered: Order.findById, the assignments and the
\* STATUS_UPDATE entry (written before the save)
UpdateOrderToDelivered(t, user, o) ==
    /\ Accept(t)
    /\ IF o \notin DOMAIN orders
       THEN /\ task' = [task EXCEPT ![t] =
                  Answered("updateOrderToDelivered", o, "DELIVERED", FALSE, 404)]
            /\ UNCHANGED audit
       ELSE /\ audit' = Append(audit,
                  AuditEvent(o, "STATUS_UPDATE", orders[o].status, "DELIVERED"))
            /\ task' = [task EXCEPT ![t] =
                  Saving("updateOrderToDelivered", o, "DELIVERED", orders[o],
                         [orders[o] EXCEPT !.isDelivered = TRUE,
                                           !.status = "DELIVERED",
                                           !.deliveredAt = now])]
    /\ UNCHANGED <<products, orders, returns, approvals, fin, now, ledger, settings>>

\* order.save() of updateOrderToPaid, updateOrderToDelivered and of the
\* payment gateway handlers
SaveFlagged(t) ==
    LET l == task[t] IN
    /\ l.op \in {"updateOrderToPaid", "updateOrderToDelivered",
                 "verifyCashfreePayment", "cashfreeWebhook"}
    /\ l.pc = "save"
    /\ orders' = StoreOrder(l.order, l.doc, l.new)
    /\ task' = [task EXCEPT ![t] = Written(l, 200)]
    /\ UNCHANGED <<products, returns, approvals, audit, fin, now, ledger, settings>>

\* "Sync legacy flags" of updateOrderStatus and updateOrdersStatusBulk
SyncPaid(d, status) ==
    IF status = "PAID"
    THEN [d EXCEPT !.isPaid = TRUE,
                   !.paidAt = IF @ = NoTime THEN now ELSE @]
    ELSE d

\* a sync in which isDelivered follows the status both ways
SyncDeliveredBothWays(d, status) ==
    IF status = "DELIVERED"
    THEN [d EXCEPT !.isDelivered = TRUE,
                   !.deliveredAt = IF @ = NoTime THEN now ELSE @]
    ELSE [d EXCEPT !.isDelivered = FALSE]

SyncDelivered(d, status) ==
    IF status = "DELIVERED"
    THEN [d EXCEPT !.isDelivered = TRUE,
                   !.deliveredAt = IF @ = NoTime THEN now ELSE @]
    ELSE d

SyncCancelled(d, status) ==
    IF status = "CANCELLED"
    THEN [d EXCEPT !.isCancelled = TRUE,
                   !.cancelledAt = IF @ = NoTime THEN now ELSE @]
    ELSE d

\* updateOrderStatus: Order.findById, the enum check, order.status = status
\* and the flags; status RETURNED goes through the lines first
UpdateOrderStatus(t, user, o, status) ==
    /\ Accept(t)
    /\ IF o \notin DOMAIN orders
       THEN task' = [task EXCEPT ![t] =
                Answered("updateOrderStatus", o, status, FALSE, 404)]
       ELSE IF status \notin OrderStatuses
       THEN task' = [task EXCEPT ![t] =
                Answered("updateOrderStatus", o, status, orders[o].isPaid, 400)]
       ELSE LET new == SyncCancelled(SyncDelivered(SyncPaid(
                          [orders[o] EXCEPT !.status = status], status), status), status)
            IN task' = [task EXCEPT ![t] =
                   [Saving("updateOrderStatus", o, status, orders[o], new) EXCEPT
                       !.pc = IF status = "RETURNED" THEN "lookup" ELSE "save"]]
    /\ UNCHANGED <<products, orders, returns, approvals, audit, fin, now, ledger, settings>>

\* ReturnRequest.findOne({order, 'orderItem.product': item.product})
ReturnOf(o, p) ==
    \E r \in DOMAIN returns : returns[r].order = o /\ returns[r].product = p

\* status RETURNED, one line: is there a return request for it already?
LookupReturn(t) ==
    LET l == task[t]
        item == l.new.items[l.i]
        next == IF l.i = Len(l.new.items) THEN "save" ELSE "lookup"
    IN
    /\ l.op = "updateOrderStatus" /\ l.pc = "lookup"
    /\ IF item.returnRequestId # NoRef \/ ReturnOf(l.order, item.product)
       THEN task' = [task EXCEPT
                ![t].new.items[l.i].returnStatus =
                    IF @ = "NONE" THEN "APPROVED" ELSE @,
                ![t].i = @ + 1, ![t].pc = next]
       ELSE task' = [task EXCEPT ![t].pc = "create"]
    /\ UNCHANGED <<products, orders, returns, approvals, audit, fin, now, ledger, settings>>

\* status RETURNED, one line: ReturnRequest.create({... status: 'APPROVED'})
CreateReturn(t) ==
    LET l == task[t]
        item == l.new.items[l.i]
        next == IF l.i = Len(l.new.items) THEN "save" ELSE "lookup"
    IN
    /\ l.op = "updateOrderStatus" /\ l.pc = "create"
    /\ returns' = Append(returns, NewReturn(l.order, l.doc.user, item, "APPROVED"))
    /\ task' = [task EXCEPT
          ![t].new.items[l.i].returnStatus = "APPROVED",
          ![t].new.items[l.i].returnRequestId = Len(returns) + 1,
          ![t].i = @ + 1, ![t].pc = next]
    /\ UNCHANGED <<products, orders, approvals, audit, fin, now, ledger, settings>>

\* order.save() and the STATUS_UPDATE entry that follows it
SaveStatus(t) ==
    LET l == task[t] IN
    /\ l.op = "updateOrderStatus" /\ l.pc = "save"
    /\ orders' = StoreOrder(l.order, l.doc, l.new)
    /\ audit' = Append(audit,
          AuditEvent(l.order, "STATUS_UPDATE", l.doc.status, l.status))
    /\ task' = [task EXCEPT ![t] = Written(l, 200)]
    /\ UNCHANGED <<products, returns, approvals, fin, now, ledger, settings>>

\* what one callback of updateOrdersStatusBulk assigns before its save
BulkChange(d, status) ==
    SyncDelivered(SyncPaid([d EXCEPT !.status = status], status), status)

\* updateOrdersStatusBulk: the emptiness check, Order.find({_id: {$in}}) and
\* the assignments every callback makes before its first await
UpdateOrdersStatusBulk(t, user, ids, status) ==
    /\ Accept(t)
    /\ LET found == ids \cap DOMAIN orders IN
       IF ids = {}
       THEN task' = [task EXCEPT ![t] =
                Answered("updateOrdersStatusBulk", NoRef, status, FALSE, 400)]
       ELSE task' = [task EXCEPT ![t] =
                [op |-> "updateOrdersStatusBulk", pc |-> "save",
                 status |-> status, pending |-> found,
                 docs |-> [o \in found |-> orders[o]],
                 wasPaid |-> \E o \in found : orders[o].isPaid,
                 wrote |-> FALSE]]
    /\ UNCHANGED <<products, orders, returns, approvals, audit, fin, now, ledger, settings>>

\* one callback's order.save() and AuditLog.create; a status outside the
\* schema's enum fails the save's validation
BulkSave(t, o) ==
    LET l == task[t] IN
    /\ l.op = "updateOrdersStatusBulk" /\ l.pc = "save"
    /\ o \in l.pending
    /\ IF l.status \in OrderStatuses
       THEN /\ orders' = StoreOrder(o, l.docs[o], BulkChange(l.docs[o], l.status))
            /\ audit' = Append(audit,
                  AuditEvent(o, "BULK_STATUS_UPDATE", l.docs[o].status, l.status))
            /\ task' = [task EXCEPT
                  ![t].pending = @ \ {o},
                  ![t].wrote = @ \/ orders' # orders]
       ELSE /\ task' = [task EXCEPT ![t] =
                  [Answered("updateOrdersStatusBulk", NoRef, l.status,
                            l.wasPaid, 500) EXCEPT !.wrote = l.wrote]]
            /\ UNCHANGED <<orders, audit>>
    /\ UNCHANGED <<products, returns, approvals, fin, now, ledger, settings>>

\* Promise.all has settled: the response
BulkDone(t) ==
    LET l == task[t] IN
    /\ l.op = "updateOrdersStatusBulk" /\ l.pc = "save"
    /\ l.pending = {}
    /\ task' = [task EXCEPT ![t] =
          [Answered("updateOrdersStatusBulk", NoRef, l.status, l.wasPaid, 200)
               EXCEPT !.wrote = l.wrote]]
    /\ UNCHANGED <<products, orders, returns, approvals, audit, fin, now, ledger, settings>>

(***************************************************************************)
(* Payment gateway handlers                                                *)
(***************************************************************************)
\* verifyCashfreePayment: the gateway's list of payments (success tells
\* whether one of them succeeded), Order.findById and the assignments
VerifyCashfreePayment(t, user, o, success) ==
    /\ Accept(t)
    /\ IF success /\ o \in DOMAIN orders
       THEN task' = [task EXCEPT ![t] =
                Saving("verifyCashfreePayment", o, "PAID", orders[o],
                       [orders[o] EXCEPT !.isPaid = TRUE, !.paidAt = now,
                                         !.status = "PAID"])]
       ELSE \* no successful payment, or no such order: nothing is asked
            task' = [task EXCEPT ![t] =
                Answered("verifyCashfreePayment", o, "",
                         o \in DOMAIN orders /\ orders[o].isPaid, 200)]
    /\ UNCHANGED <<products, orders, returns, approvals, audit, fin, now, ledger, settings>>

\* cashfreeWebhook, type PAYMENT_SUCCESS_WEBHOOK: Order.findById and the
\* assignments, skipped for an order that is paid
CashfreeWebhook(t, o) ==
    /\ Accept(t)
    /\ IF o \in DOMAIN orders /\ ~orders[o].isPaid
       THEN task' = [task EXCEPT ![t] =
                Saving("cashfreeWebhook", o, "PAID", orders[o],
                       [orders[o] EXCEPT !.isPaid = TRUE, !.paidAt = now,
                                         !.status = "PAID"])]
       ELSE task' = [task EXCEPT ![t] =
                Answered("cashfreeWebhook", o, "PAID",
                         o \in DOMAIN orders /\ orders[o].isPaid, 200)]
    /\ UNCHANGED <<products, orders, returns, approvals, audit, fin, now, ledger, settings>>

(***************************************************************************)
(* Return eligibility: GET /api/returns/eligibility/:id                    *)
(***************************************************************************)
\* the milliseconds of a day: 24 * 60 * 60 * 1000
DayMs == 24 * 60 * 60 * 1000

\* a product document without a returnPolicy (product.returnPolicy || {})
EmptyPolicy == [f \in {} |-> TRUE]

\* product ? (product.returnPolicy || {}) : {}
PolicyOf(prod) == IF prod.exists THEN prod.returnPolicy ELSE EmptyPolicy

\* returns are on unless the settings document says otherwise, whatever is
\* on file
ReturnsActiveUnlessNoSettings(sett) == sett.exists /\ sett.areReturnsActive

\* settings ? settings.areReturnsActive : true
ReturnsActive(sett) == IF sett.exists THEN sett.areReturnsActive ELSE TRUE

\* (returnPolicy.isReturnable !== undefined) ? returnPolicy.isReturnable : true
IsReturnable(policy) ==
    IF "isReturnable" \in DOMAIN policy THEN policy.isReturnable ELSE TRUE

\* days * 24 * 60 * 60 * 1000, days defaulting to 7
WindowMs(policy) ==
    (IF "returnWindowDays" \in DOMAIN policy THEN policy.returnWindowDays ELSE 7)
        * DayMs

\* a window that is over at its last instant already
WindowExpiredAtEnd(at, deliveredAt, windowMs) ==
    deliveredAt # NoTime /\ at >= deliveredAt + windowMs

\* now > new Date(order.deliveredAt).getTime() + windowMs; with deliveredAt
\* undefined the right-hand side is NaN and the comparison is false
WindowExpired(at, deliveredAt, windowMs) ==
    deliveredAt # NoTime /\ at > deliveredAt + windowMs

\* currentStatus !== 'NONE' && currentStatus !== 'REJECTED'
ActiveReturn(status) == status \notin {"NONE", "REJECTED"}

\* the reasons one pass of the loop pushes for an item, in order
ItemReasons(ord, item, prod, sett, at) ==
    LET policy == PolicyOf(prod) IN
    (IF ~ReturnsActive(sett) THEN <<"disabled">> ELSE <<>>)
    \o (IF ~ord.isDelivered \/ ord.deliveredAt = NoTime
        THEN <<"undelivered">> ELSE <<>>)
    \o (IF ~prod.exists \/ ~IsReturnable(policy)
        THEN <<"nonreturnable">> ELSE <<>>)
    \o (IF ord.deliveredAt # NoTime /\ prod.exists
           /\ WindowExpired(at, ord.deliveredAt, WindowMs(policy))
        THEN <<"expired">> ELSE <<>>)
    \o (IF ActiveReturn(item.returnStatus) THEN <<"active">> ELSE <<>>)

\* isEligible of that pass: cleared wherever a reason is pushed
ItemEligible(ord, item, prod, sett, at) ==
    LET policy == PolicyOf(prod) IN
    /\ ReturnsActive(sett)
    /\ ~(~ord.isDelivered \/ ord.deliveredAt = NoTime)
    /\ ~(~prod.exists \/ ~IsReturnable(policy))
    /\ ~(ord.deliveredAt # NoTime /\ prod.exists
           /\ WindowExpired(at, ord.deliveredAt, WindowMs(policy)))
    /\ ~ActiveReturn(item.returnStatus)

\* Order.findById
GetReturnEligibility(t, user, o) ==
    /\ Accept(t)
    /\ IF o \notin DOMAIN orders
       THEN task' = [task EXCEPT ![t] =
                [op |-> "getReturnEligibility", pc |-> "done", res |-> 404,
                 order |-> o]]
       ELSE task' = [task EXCEPT ![t] =
                [op |-> "getReturnEligibility", pc |-> "products",
                 order |-> o, doc |-> orders[o]]]
    /\ UNCHANGED <<products, orders, returns, approvals, audit, fin, now, ledger, settings>>

\* Product.find({_id: {$in: productIds}}) and the productMap
EligibilityProducts(t) ==
    LET l == task[t] IN
    /\ l.op = "getReturnEligibility" /\ l.pc = "products"
    /\ task' = [task EXCEPT
          ![t] = [op |-> "getReturnEligibility", pc |-> "settings",
                  order |-> l.order, doc |-> l.doc, productMap |-> products]]
    /\ UNCHANGED <<products, orders, returns, approvals, audit, fin, now, ledger, settings>>

\* Setting.findOne(), the loop over order.orderItems and the response
EligibilitySettings(t) ==
    LET l == task[t] IN
    /\ l.op = "getReturnEligibility" /\ l.pc = "settings"
    /\ task' = [task EXCEPT ![t] =
          [op |-> "getReturnEligibility", pc |-> "done", res |-> 200,
           order |-> l.order, at |-> now,
           eligibility |-> [k \in DOMAIN l.doc.items |->
              [isEligible |-> ItemEligible(l.doc, l.doc.items[k],
                                  l.productMap[l.doc.items[k].product],
                                  settings, now),
               reasons |-> ItemReasons(l.doc, l.doc.items[k],
                                  l.productMap[l.doc.items[k].product],
                                  settings, now)]]]]
    /\ UNCHANGED <<products, orders, returns, approvals, audit, fin, now, ledger, settings>>

(***************************************************************************)
(* requestReturn: POST /api/returns/request/:id                            *)
(***************************************************************************)
\* a request that was refused, with the one message its error carries
Refused(l, res, reasons) ==
    [op |-> "requestReturn", pc |-> "done", res |-> res, user |-> l.user,
     order |-> l.order, item |-> l.item, reasons |-> reasons, at |-> now]

\* Order.findById and order.orderItems.id(itemId)
RequestReturn(t, user, o, k) ==
    /\ Accept(t)
    /\ IF o \notin DOMAIN orders \/ k \notin DOMAIN orders[o].items
       THEN task' = [task EXCEPT ![t] =
                Refused([user |-> user, order |-> o, item |-> k], 404, <<>>)]
       ELSE task' = [task EXCEPT ![t] =
                [op |-> "requestReturn", pc |-> "product", user |-> user,
                 order |-> o, item |-> k, doc |-> orders[o]]]
    /\ UNCHANGED <<products, orders, returns, approvals, audit, fin, now, ledger, settings>>

\* Product.findById(item.product)
RequestProduct(t) ==
    LET l == task[t] IN
    /\ l.op = "requestReturn" /\ l.pc = "product"
    /\ task' = [task EXCEPT ![t] =
          [op |-> "requestReturn", pc |-> "check", user |-> l.user,
           order |-> l.order, item |-> l.item, doc |-> l.doc,
           product |-> products[l.doc.items[l.item].product]]]
    /\ UNCHANGED <<products, orders, returns, approvals, audit, fin, now, ledger, settings>>

\* Setting.findOne() and the "Strict Eligibility Check": the first condition
\* that fails throws; a missing product makes product.returnPolicy throw
RequestCheck(t) ==
    LET l == task[t]
        item == l.doc.items[l.item]
    IN
    /\ l.op = "requestReturn" /\ l.pc = "check"
    /\ task' = [task EXCEPT ![t] =
          IF settings.exists /\ ~settings.areReturnsActive
          THEN Refused(l, 403, <<"disabled">>)
          ELSE IF ~l.doc.isDelivered
          THEN Refused(l, 400, <<"undelivered">>)
          ELSE IF ~l.product.exists
          THEN Refused(l, 500, <<>>)
          ELSE IF ~IsReturnable(PolicyOf(l.product))
          THEN Refused(l, 400, <<"nonreturnable">>)
          ELSE IF WindowExpired(now, l.doc.deliveredAt,
                                WindowMs(PolicyOf(l.product)))
          THEN Refused(l, 400, <<"expired">>)
          ELSE IF ActiveReturn(item.returnStatus)
          THEN Refused(l, 400, <<"active">>)
          ELSE [op |-> "requestReturn", pc |-> "create", user |-> l.user,
                order |-> l.order, item |-> l.item, doc |-> l.doc, at |-> now]]
    /\ UNCHANGED <<products, orders, returns, approvals, audit, fin, now, ledger, settings>>

\* ReturnRequest.create({... status: 'REQUESTED', history: [REQUESTED]})
RequestCreate(t) ==
    LET l == task[t] IN
    /\ l.op = "requestReturn" /\ l.pc = "create"
    /\ returns' = Append(returns,
          NewReturn(l.order, l.user, l.doc.items[l.item], "REQUESTED"))
    /\ task' = [task EXCEPT ![t] =
          [op |-> "requestReturn", pc |-> "saveLine", user |-> l.user,
           order |-> l.order, item |-> l.item, doc |-> l.doc, at |-> l.at,
           ret |-> Len(returns) + 1]]
    /\ UNCHANGED <<products, orders, approvals, audit, fin, now, ledger, settings>>

\* item.returnStatus = 'REQUESTED'; item.returnRequestId; order.save()
RequestSaveLine(t) ==
    LET l == task[t] IN
    /\ l.op = "requestReturn" /\ l.pc = "saveLine"
    /\ orders' = StoreOrder(l.order, l.doc,
          [l.doc EXCEPT !.items[l.item].returnStatus = "REQUESTED",
                        !.items[l.item].returnRequestId = l.ret])
    /\ task' = [task EXCEPT ![t] =
          [op |-> "requestReturn", pc |-> "log", user |-> l.user,
           order |-> l.order, item |-> l.item, at |-> l.at, ret |-> l.ret]]
    /\ UNCHANGED <<products, returns, approvals, audit, fin, now, ledger, settings>>

\* the RETURN_REQUESTED entry and the 201 response
RequestLog(t) ==
    LET l == task[t] IN
    /\ l.op = "requestReturn" /\ l.pc = "log"
    /\ audit' = Append(audit, AuditEvent(l.order, "RETURN_REQUESTED", "", ""))
    /\ task' = [task EXCEPT ![t] =
          [op |-> "requestReturn", pc |-> "done", res |-> 201, user |-> l.user,
           order |-> l.order, item |-> l.item, reasons |-> <<>>, at |-> l.at,
           ret |-> l.ret]]
    /\ UNCHANGED <<products, orders, returns, approvals, fin, now, ledger, settings>>

(***************************************************************************)
(* schedulePickup: PUT /api/returns/:id/schedule                           *)
(***************************************************************************)
\* ReturnRequest.findById, the owner check and the APPROVED guard
SchedulePickup(t, user, r) ==
    /\ Accept(t)
    /\ task' = [task EXCEPT ![t] =
          IF r \notin DOMAIN returns
          THEN [op |-> "schedulePickup", pc |-> "done", res |-> 404, ret |-> r,
                user |-> user]
          ELSE IF returns[r].user # user
          THEN [op |-> "schedulePickup", pc |-> "done", res |-> 401, ret |-> r,
                user |-> user]
          ELSE IF returns[r].status # "APPROVED"
          THEN [op |-> "schedulePickup", pc |-> "done", res |-> 400, ret |-> r,
                user |-> user]
          ELSE [op |-> "schedulePickup", pc |-> "saveReturn", ret |-> r,
                user |-> user, doc |-> returns[r]]]
    /\ UNCHANGED <<products, orders, returns, approvals, audit, fin, now, ledger, settings>>

\* returnReq.status = 'PICKUP_SCHEDULED'; history.push; returnReq.save()
PickupSaveReturn(t) ==
    LET l == task[t] IN
    /\ l.op = "schedulePickup" /\ l.pc = "saveReturn"
    /\ returns' = [returns EXCEPT
          ![l.ret].status = Saved(@, l.doc.status, "PICKUP_SCHEDULED"),
          ![l.ret].history = Append(@, "PICKUP_SCHEDULED")]
    /\ task' = [task EXCEPT ![t].pc = "findOrder"]
    /\ UNCHANGED <<products, orders, approvals, audit, fin, now, ledger, settings>>

\* Order.findById(returnReq.order) and the line lookup
PickupFindOrder(t) ==
    LET l == task[t]
        o == l.doc.order
        k == FindItem(o, l.doc.product)
    IN
    /\ l.op = "schedulePickup" /\ l.pc = "findOrder"
    /\ task' = [task EXCEPT ![t] =
          [op |-> "schedulePickup", pc |-> IF k = 0 THEN "log" ELSE "saveLine",
           ret |-> l.ret, order |-> o, item |-> k,
           line |-> IF k = 0 THEN NewItem([product |-> "p3", qty |-> 0])
                    ELSE orders[o].items[k]]]
    /\ UNCHANGED <<products, orders, returns, approvals, audit, fin, now, ledger, settings>>

\* item.returnStatus = 'PICKUP_SCHEDULED'; order.save()
PickupSaveLine(t) ==
    LET l == task[t] IN
    /\ l.op = "schedulePickup" /\ l.pc = "saveLine"
    /\ orders' = [orders EXCEPT ![l.order].items[l.item].returnStatus =
                        Saved(@, l.line.returnStatus, "PICKUP_SCHEDULED")]
    /\ task' = [task EXCEPT ![t].pc = "log"]
    /\ UNCHANGED <<products, returns, approvals, audit, fin, now, ledger, settings>>

\* the RETURN_PICKUP_SCHEDULED entry and the response
PickupLog(t) ==
    LET l == task[t] IN
    /\ l.op = "schedulePickup" /\ l.pc = "log"
    /\ audit' = Append(audit,
          AuditEvent(l.order, "RETURN_PICKUP_SCHEDULED", "", ""))
    /\ task' = [task EXCEPT ![t] =
          [op |-> "schedulePickup", pc |-> "done", res |-> 200, ret |-> l.ret]]
    /\ UNCHANGED <<products, orders, returns, approvals, fin, now, ledger, settings>>

(***************************************************************************)
(* AuditLog.create that rejects, and the activity log routes               *)
(***************************************************************************)
\* the answer of a handler whose AuditLog.create rejected: asyncHandler
\* hands the error on and the request is answered 500
Unlogged(op, o, r) ==
    [op |-> op, pc |-> "done", order |-> o, ret |-> r, res |-> 500,
     log |-> "failed"]

\* updateOrderToPaid when the PAYMENT_RECEIVED entry cannot be written: the
\* handler throws before order.save()
UpdateOrderToPaidUnlogged(t, user, o) ==
    /\ Accept(t)
    /\ o \in DOMAIN orders /\ ~orders[o].isPaid
    /\ task' = [task EXCEPT ![t] = Unlogged("updateOrderToPaid", o, NoRef)]
    /\ UNCHANGED <<products, orders, returns, approvals, audit, fin, now, ledger, settings>>

\* updateOrderToDelivered when the STATUS_UPDATE entry cannot be written:
\* the handler throws before order.save()
UpdateOrderToDeliveredUnlogged(t, user, o) ==
    /\ Accept(t)
    /\ o \in DOMAIN orders
    /\ task' = [task EXCEPT ![t] = Unlogged("updateOrderToDelivered", o, NoRef)]
    /\ UNCHANGED <<products, orders, returns, approvals, audit, fin, now, ledger, settings>>

\* cancelOrder when the ORDER_CANCELLED entry cannot be written: the handler
\* throws before order.save() and before the stock restoration
CancelOrderUnlogged(t, user, o) ==
    /\ Accept(t)
    /\ o \in DOMAIN orders
    /\ ~(orders[o].isDelivered \/ orders[o].isCancelled)
    /\ task' = [task EXCEPT ![t] = Unlogged("cancelOrder", o, NoRef)]
    /\ UNCHANGED <<products, orders, returns, approvals, audit, fin, now, ledger, settings>>

\* updateOrderStatus: order.save(), then a STATUS_UPDATE entry that cannot
\* be written
SaveStatusUnlogged(t) ==
    LET l == task[t] IN
    /\ l.op = "updateOrderStatus" /\ l.pc = "save"
    /\ orders' = StoreOrder(l.order, l.doc, l.new)
    /\ task' = [task EXCEPT ![t] = Unlogged("updateOrderStatus", l.order, NoRef)]
    /\ UNCHANGED <<products, returns, approvals, audit, fin, now, ledger, settings>>

\* requestReturn when the RETURN_REQUESTED entry cannot be written
RequestLogUnlogged(t) ==
    LET l == task[t] IN
    /\ l.op = "requestReturn" /\ l.pc = "log"
    /\ task' = [task EXCEPT ![t] = Unlogged("requestReturn", l.order, l.ret)]
    /\ UNCHANGED <<products, orders, returns, approvals, audit, fin, now, ledger, settings>>

\* updateReturnStatus when the RETURN_<status> entry cannot be written: the
\* handler throws before FinancialRecord.create
FinishReturnUnlogged(t) ==
    LET l == task[t] IN
    /\ l.op = "updateReturnStatus" /\ l.pc = "finish"
    /\ task' = [task EXCEPT ![t] =
          [op |-> "updateReturnStatus", pc |-> "done", order |-> l.order,
           ret |-> l.ret, res |-> 500, log |-> "failed", body |-> l.body]]
    /\ UNCHANGED <<products, orders, returns, approvals, audit, fin, now, ledger, settings>>

\* approveRequest when the RETURN_<status> entry cannot be written: the
\* handler throws before approval.save()
ReplayLogUnlogged(t) ==
    LET l == task[t] IN
    /\ l.op = "approveRequest" /\ l.pc = "finish"
    /\ task' = [task EXCEPT ![t] =
          [op |-> "approveRequest", pc |-> "done", order |-> l.order,
           ret |-> l.ret, res |-> 500, log |-> "failed", body |-> l.body,
           approval |-> l.approval]]
    /\ UNCHANGED <<products, orders, returns, approvals, audit, fin, now, ledger, settings>>

\* cancelOrder when product.save() of line k's product rejects: the order
\* is saved as cancelled already, Promise.all rejects, the answer is 500
CancelWriteProductFailed(t, k) ==
    LET l == task[t] IN
    /\ l.op = "cancelOrder" /\ l.pc = "restore"
    /\ k \in DOMAIN l.read
    /\ task' = [task EXCEPT
          ![t].read = [j \in DOMAIN @ \ {k} |-> @[j]],
          ![t].res = 500]
    /\ UNCHANGED <<products, orders, returns, approvals, audit, fin, now, ledger, settings>>

\* updateReturnStatus when product.save() rejects: the return request and
\* the order line are saved already, the answer is 500
WriteProductFailed(t) ==
    LET l == task[t] IN
    /\ l.op = "updateReturnStatus" /\ l.pc = "writeProduct"
    /\ task' = [task EXCEPT ![t] =
          [op |-> "updateReturnStatus", pc |-> "done", res |-> 500,
           user |-> l.user, ret |-> l.ret, body |-> l.body,
           order |-> l.order, item |-> l.item, pre |-> l.pre]]
    /\ UNCHANGED <<products, orders, returns, approvals, audit, fin, now, ledger, settings>>

\* updateReturnStatus when FinancialRecord.create rejects: everything else,
\* the RETURN_REFUNDED entry included, is written already, the answer is 500
FinishReturnUnrecorded(t) ==
    LET l == task[t] IN
    /\ l.op = "updateReturnStatus" /\ l.pc = "finish"
    /\ l.body.status = "REFUNDED"
    /\ audit' = Append(audit, AuditEvent(l.order, "RETURN_" \o l.body.status, "", ""))
    /\ task' = [task EXCEPT ![t] =
          [op |-> "updateReturnStatus", pc |-> "done", res |-> 500,
           user |-> l.user, ret |-> l.ret, body |-> l.body,
           order |-> l.order, item |-> l.item, pre |-> l.pre]]
    /\ UNCHANGED <<products, orders, returns, approvals, fin, now, ledger, settings>>

\* approveRequest when productItem.save() rejects: the return request and
\* the order line are saved already, the approval is not; the answer is 500
ReplayWriteProductFailed(t) ==
    LET l == task[t] IN
    /\ l.op = "approveRequest" /\ l.pc = "writeProduct"
    /\ task' = [task EXCEPT ![t] =
          [op |-> "approveRequest", pc |-> "done", res |-> 500,
           approval |-> l.approval, ret |-> l.ret, body |-> l.body,
           order |-> l.order, item |-> l.item, pre |-> l.pre]]
    /\ UNCHANGED <<products, orders, returns, approvals, audit, fin, now, ledger, settings>>

\* clearActivityLogs, DELETE /api/admin/management/activity-logs:
\* AuditLog.deleteMany({})
ClearActivityLogs(t, user) ==
    /\ Accept(t)
    /\ audit' = <<>>
    /\ task' = [task EXCEPT ![t] =
          [op |-> "clearActivityLogs", pc |-> "done", res |-> 200]]
    /\ UNCHANGED <<products, orders, returns, approvals, fin, now, ledger, settings>>

\* deleteActivityLog, DELETE /api/admin/management/activity-logs/:id:
\* AuditLog.findById and log.deleteOne()
DeleteActivityLog(t, user, id) ==
    /\ Accept(t)
    /\ IF id \in DOMAIN audit
       THEN /\ audit' = [i \in 1..(Len(audit) - 1) |->
                           IF i < id THEN audit[i] ELSE audit[i + 1]]
            /\ task' = [task EXCEPT ![t] =
                  [op |-> "deleteActivityLog", pc |-> "done", res |-> 200]]
       ELSE /\ task' = [task EXCEPT ![t] =
                  [op |-> "deleteActivityLog", pc |-> "done", res |-> 404]]
            /\ UNCHANGED audit
    /\ UNCHANGED <<products, orders, returns, approvals, fin, now, ledger, settings>>

\* time passes between two requests
Tick ==
    /\ now < MaxTime
    /\ now' = now + 1
    /\ UNCHANGED <<products, orders, returns, approvals, audit, fin, task, ledger,
                   ops, settings>>

(***************************************************************************)
(* Specifications                                                          *)
(***************************************************************************)
Begin(n) == ops < n /\ ops' = ops + 1
Continue == ops' = ops

\* the store after construction: the catalogue, no orders
Init ==
    /\ products = Catalogue(DefaultPolicy)
    /\ settings = NoSettings
    /\ orders = <<>>
    /\ returns = <<>>
    /\ approvals = <<>>
    /\ audit = <<>>
    /\ fin = <<>>
    /\ now = 1
    /\ task = [t \in Tasks |-> Idle]
    /\ ledger = [supplied |-> [p \in ProductIds |-> products[p].countInStock],
                 expected |-> [p \in ProductIds |-> products[p].countInStock],
                 restored |-> {}]
    /\ ops = 0

\* a store in business: order 1 (one unit of p1) is placed; order 2 (one unit
\* of p1) is delivered and its line has return request 1, for which admin1
\* has asked the super admin's approval to refund and restock
OneUnit == <<[product |-> "p1", qty |-> 1]>>
InBusiness ==
    /\ products = Catalogue(DefaultPolicy)
    /\ settings = NoSettings
    /\ orders = <<NewOrder("cust", OneUnit),
                  [NewOrder("cust", OneUnit) EXCEPT
                      !.status = "DELIVERED", !.isDelivered = TRUE,
                      !.deliveredAt = 1,
                      !.items[1].returnStatus = "REQUESTED",
                      !.items[1].returnRequestId = 1]>>
    /\ returns = <<NewReturn(2, "cust", OneUnit[1], "REQUESTED")>>
    /\ approvals = <<NewApproval("admin1", "APPROVE_RETURN", "ReturnRequest", 1,
                        [status |-> "REFUNDED", refundAmount |-> 1,
                         restoreInventory |-> TRUE])>>
    /\ audit = <<AuditEvent(2, "STATUS_UPDATE", "CREATED", "DELIVERED"),
                 AuditEvent(2, "RETURN_REQUESTED", "", "")>>
    /\ fin = <<>>
    /\ now = 1
    /\ task = [t \in Tasks |-> Idle]
    /\ ledger = [supplied |-> [p \in ProductIds |->
                                 products[p].countInStock + IF p = "p1" THEN 2 ELSE 0],
                 expected |-> [p \in ProductIds |-> products[p].countInStock],
                 restored |-> {}]
    /\ ops = 0

\* a delivered order of one unit of p1 whose line has return request r
Returned(r) ==
    [NewOrder("cust", OneUnit) EXCEPT
        !.status = "DELIVERED", !.isDelivered = TRUE, !.deliveredAt = 1,
        !.items[1].returnStatus = "REQUESTED",
        !.items[1].returnRequestId = r]

\* a store with two delivered orders and a return request for each; for
\* return 1 admin1 has asked the super admin's approval to refund and restock
InReturns ==
    /\ products = Catalogue(DefaultPolicy)
    /\ settings = NoSettings
    /\ orders = <<Returned(1), Returned(2)>>
    /\ returns = <<NewReturn(1, "cust", OneUnit[1], "REQUESTED"),
                   NewReturn(2, "cust", OneUnit[1], "REQUESTED")>>
    /\ approvals = <<NewApproval("admin1", "APPROVE_RETURN", "ReturnRequest", 1,
                        [status |-> "REFUNDED", refundAmount |-> 1,
                         restoreInventory |-> TRUE])>>
    /\ audit = <<AuditEvent(1, "RETURN_REQUESTED", "", ""),
                 AuditEvent(2, "RETURN_REQUESTED", "", "")>>
    /\ fin = <<>>
    /\ now = 1
    /\ task = [t \in Tasks |-> Idle]
    /\ ledger = [supplied |-> [p \in ProductIds |->
                                 products[p].countInStock + IF p = "p1" THEN 2 ELSE 0],
                 expected |-> [p \in ProductIds |-> products[p].countInStock],
                 restored |-> {}]
    /\ ops = 0

\* inventory: checkouts, cancellations, return restocks (direct and by
\* approval) and manual adjustments, racing for the stock
NextStock ==
    \/ Begin(StockOps) /\ \E t \in Tasks, ls \in LineSeqs :
          AddOrderItems(t, "cust", ls, FairBill(ls))
    \/ Continue /\ \E t \in Tasks : ReserveLine(t)
    \/ Continue /\ \E t \in Tasks, saved \in BOOLEAN : SaveOrder(t, saved)
    \/ Continue /\ \E t \in Tasks : RollbackLine(t)
    \/ Begin(StockOps) /\ \E t \in Tasks, o \in DOMAIN orders :
          CancelOrder(t, "admin1", o)
    \/ Continue /\ \E t \in Tasks : CancelSave(t)
    \/ Continue /\ \E t \in Tasks, k \in 1..2 : CancelReadProduct(t, k)
    \/ Continue /\ \E t \in Tasks, k \in 1..2 : CancelWriteProduct(t, k)
    \/ Continue /\ \E t \in Tasks : CancelDone(t)
    \/ Begin(StockOps) /\ \E t \in Tasks, d \in -MaxQty..MaxQty :
          UpdateStockManual(t, "p1", d)
    \/ Begin(StockOps) /\ \E t \in Tasks, r \in DOMAIN returns,
                              b \in Payloads({"APPROVED", "REFUNDED"}, {1}) :
          UpdateReturnStatus(t, "super", r, b)
    \/ Continue /\ \E t \in Tasks : SaveReturn(t)
    \/ Continue /\ \E t \in Tasks : SaveLine(t)
    \/ Continue /\ \E t \in Tasks : ReadProduct(t)
    \/ Continue /\ \E t \in Tasks : WriteProduct(t)
    \/ Continue /\ \E t \in Tasks : FinishReturn(t)
    \/ Begin(StockOps) /\ \E t \in Tasks, a \in DOMAIN approvals :
          ApproveRequest(t, "super", a)
    \/ Continue /\ \E t \in Tasks : ReplaySaveReturn(t)
    \/ Continue /\ \E t \in Tasks : ReplaySaveLine(t)
    \/ Continue /\ \E t \in Tasks : ReplayReadProduct(t)
    \/ Continue /\ \E t \in Tasks : ReplayWriteProduct(t)
    \/ Continue /\ \E t \in Tasks : ReplayLog(t)
    \/ Continue /\ \E t \in Tasks : ResolveApproved(t)

SpecStock == InBusiness /\ [][NextStock]_vars

\* the approval gate: admins and the super admin change return statuses and
\* delete products, the super admin approves and rejects, all concurrently
NextGate ==
    \/ Begin(GateOps) /\ \E t \in Tasks, u \in {"admin1", "super"},
                             r \in DOMAIN returns,
                             b \in Payloads({"REFUNDED", "PICKED_UP"}, {0, 1}) :
          UpdateReturnStatus(t, u, r, b)
    \/ Continue /\ \E t \in Tasks : GateReturn(t)
    \/ Continue /\ \E t \in Tasks : SaveReturn(t)
    \/ Continue /\ \E t \in Tasks : SaveLine(t)
    \/ Continue /\ \E t \in Tasks : ReadProduct(t)
    \/ Continue /\ \E t \in Tasks : WriteProduct(t)
    \/ Continue /\ \E t \in Tasks : FinishReturn(t)
    \/ Begin(GateOps) /\ \E t \in Tasks, a \in DOMAIN approvals :
          ApproveRequest(t, "super", a)
    \/ Continue /\ \E t \in Tasks : ReplayDelete(t)
    \/ Continue /\ \E t \in Tasks : ReplaySaveReturn(t)
    \/ Continue /\ \E t \in Tasks : ReplaySaveLine(t)
    \/ Continue /\ \E t \in Tasks : ReplayReadProduct(t)
    \/ Continue /\ \E t \in Tasks : ReplayWriteProduct(t)
    \/ Continue /\ \E t \in Tasks : ReplayLog(t)
    \/ Continue /\ \E t \in Tasks : ResolveApproved(t)
    \/ Begin(GateOps) /\ \E t \in Tasks, a \in DOMAIN approvals :
          RejectRequest(t, "super", a, "no")
    \/ Continue /\ \E t \in Tasks : ResolveRejected(t)
    \/ Begin(GateOps) /\ \E t \in Tasks, u \in {"admin1", "super"} :
          DeleteProduct(t, u, "p1")
    \/ Continue /\ \E t \in Tasks : GateDelete(t)

SpecGate == InReturns /\ [][NextGate]_vars

\* return status changes one at a time: a handler starts only when every
\* other has answered
NextReplay ==
    \/ Begin(ReplayOps) /\ Quiescent
          /\ \E t \in Tasks, u \in {"admin1", "super"}, r \in DOMAIN returns,
                 b \in Payloads(ReturnStatuses, {0, 1}) :
                UpdateReturnStatus(t, u, r, b)
    \/ Continue /\ \E t \in Tasks : GateReturn(t)
    \/ Continue /\ \E t \in Tasks : SaveReturn(t)
    \/ Continue /\ \E t \in Tasks : SaveLine(t)
    \/ Continue /\ \E t \in Tasks : ReadProduct(t)
    \/ Continue /\ \E t \in Tasks : WriteProduct(t)
    \/ Continue /\ \E t \in Tasks : FinishReturn(t)
    \/ Begin(ReplayOps) /\ Quiescent
          /\ \E t \in Tasks, a \in DOMAIN approvals :
                ApproveRequest(t, "super", a)
    \/ Continue /\ \E t \in Tasks : ReplaySaveReturn(t)
    \/ Continue /\ \E t \in Tasks : ReplaySaveLine(t)
    \/ Continue /\ \E t \in Tasks : ReplayReadProduct(t)
    \/ Continue /\ \E t \in Tasks : ReplayWriteProduct(t)
    \/ Continue /\ \E t \in Tasks : ReplayLog(t)
    \/ Continue /\ \E t \in Tasks : ResolveApproved(t)

SpecReplay == InReturns /\ [][NextReplay]_vars

\* order status and payment: admins mark orders, singly and in bulk, the
\* payment gateway reports, and time passes
NextPay ==
    \/ Begin(PayOps) /\ \E t \in Tasks, o \in DOMAIN orders :
          UpdateOrderToPaid(t, "admin1", o)
    \/ Begin(PayOps) /\ \E t \in Tasks, o \in DOMAIN orders :
          UpdateOrderToDelivered(t, "admin1", o)
    \/ Continue /\ \E t \in Tasks : SaveFlagged(t)
    \/ Begin(PayOps) /\ \E t \in Tasks, o \in DOMAIN orders :
          CancelOrder(t, "admin1", o)
    \/ Continue /\ \E t \in Tasks : CancelSave(t)
    \/ Continue /\ \E t \in Tasks, k \in 1..2 : CancelReadProduct(t, k)
    \/ Continue /\ \E t \in Tasks, k \in 1..2 : CancelWriteProduct(t, k)
    \/ Continue /\ \E t \in Tasks : CancelDone(t)
    \/ Begin(PayOps) /\ \E t \in Tasks, o \in DOMAIN orders,
                            st \in {"PAID", "DELIVERED", "CANCELLED", "RETURNED",
                                    "PACKED"} :
          UpdateOrderStatus(t, "admin1", o, st)
    \/ Continue /\ \E t \in Tasks : LookupReturn(t)
    \/ Continue /\ \E t \in Tasks : CreateReturn(t)
    \/ Continue /\ \E t \in Tasks : SaveStatus(t)
    \/ Begin(PayOps) /\ \E t \in Tasks, ids \in SUBSET DOMAIN orders,
                            st \in {"PAID", "DELIVERED", "CANCELLED", "PACKED"} :
          UpdateOrdersStatusBulk(t, "admin1", ids, st)
    \/ Continue /\ \E t \in Tasks, o \in DOMAIN orders : BulkSave(t, o)
    \/ Continue /\ \E t \in Tasks : BulkDone(t)
    \/ Begin(PayOps) /\ \E t \in Tasks, o \in DOMAIN orders, success \in BOOLEAN :
          VerifyCashfreePayment(t, "cust", o, success)
    \/ Begin(PayOps) /\ \E t \in Tasks, o \in DOMAIN orders :
          CashfreeWebhook(t, o)
    \/ Tick

SpecPay == InBusiness /\ [][NextPay]_vars

\* an order is placed and cancelled, through cancelOrder or through the
\* status update, starting from the store after construction
NextTrip ==
    \/ Begin(TripOps) /\ \E t \in Tasks, ls \in LineSeqs :
          AddOrderItems(t, "cust", ls, FairBill(ls))
    \/ Continue /\ \E t \in Tasks : ReserveLine(t)
    \/ Continue /\ \E t \in Tasks, saved \in BOOLEAN : SaveOrder(t, saved)
    \/ Continue /\ \E t \in Tasks : RollbackLine(t)
    \/ Begin(TripOps) /\ \E t \in Tasks, o \in DOMAIN orders :
          CancelOrder(t, "cust", o)
    \/ Continue /\ \E t \in Tasks : CancelSave(t)
    \/ Continue /\ \E t \in Tasks, k \in 1..2 : CancelReadProduct(t, k)
    \/ Continue /\ \E t \in Tasks, k \in 1..2 : CancelWriteProduct(t, k)
    \/ Continue /\ \E t \in Tasks : CancelDone(t)
    \/ Begin(TripOps) /\ \E t \in Tasks, o \in DOMAIN orders :
          UpdateOrderStatus(t, "admin1", o, "CANCELLED")
    \/ Continue /\ \E t \in Tasks : SaveStatus(t)

SpecTrip == Init /\ [][NextTrip]_vars

\* the return policies of p1 in the eligibility scenario: none on file (a
\* legacy product), the defaults, not returnable, a window of no days, and a
\* window of one day with isReturnable not on file
Policies ==
    {EmptyPolicy, DefaultPolicy,
     [isReturnable |-> FALSE, returnWindowDays |-> 7],
     [isReturnable |-> TRUE, returnWindowDays |-> 0],
     [returnWindowDays |-> 1]}

\* the settings on file: none, returns on, returns off
SettingsDocs ==
    {NoSettings, [exists |-> TRUE, areReturnsActive |-> TRUE],
     [exists |-> TRUE, areReturnsActive |-> FALSE]}

\* the instants at which the eligibility scenario plays: the last instant of
\* a window of 0, 1 and 7 days after a delivery at instant 1, and the
\* instant after it
Instants == {1 + d * DayMs + e : d \in {0, 1, 7}, e \in {0, 1}}

\* a store with three orders of one customer: order 1 delivered, its line
\* under a return request that is open or was rejected; order 2 delivered,
\* one line of p1 and one of a product deleted since; order 3 not delivered
InService ==
    /\ products \in {Catalogue(policy) : policy \in Policies}
    /\ settings \in SettingsDocs
    /\ now \in Instants
    /\ \E s \in {"REQUESTED", "REJECTED"} :
          /\ orders = <<[Returned(1) EXCEPT !.items[1].returnStatus = s],
                        [NewOrder("cust", <<[product |-> "p1", qty |-> 1],
                                            [product |-> "p3", qty |-> 1]>>)
                            EXCEPT !.status = "DELIVERED", !.isDelivered = TRUE,
                                   !.deliveredAt = 1],
                        NewOrder("cust", OneUnit)>>
          /\ returns = <<[NewReturn(1, "cust", OneUnit[1], "REQUESTED") EXCEPT
                             !.status = s,
                             !.history = IF s = "REQUESTED" THEN @
                                         ELSE Append(@, s)]>>
    /\ approvals = <<>>
    /\ audit = <<AuditEvent(1, "RETURN_REQUESTED", "", "")>>
    /\ fin = <<>>
    /\ task = [t \in Tasks |-> Idle]
    /\ ledger = [supplied |-> [p \in ProductIds |->
                                 products[p].countInStock + IF p = "p1" THEN 3 ELSE 0],
                 expected |-> [p \in ProductIds |-> products[p].countInStock],
                 restored |-> {}]
    /\ ops = 0

\* eligibility: customers ask what can be returned and request returns, one
\* request at a time
NextEligible ==
    \/ Begin(EligibleOps) /\ Quiescent
          /\ \E t \in Tasks, o \in 1..(Len(orders) + 1) :
                GetReturnEligibility(t, "cust", o)
    \/ Continue /\ \E t \in Tasks : EligibilityProducts(t)
    \/ Continue /\ \E t \in Tasks : EligibilitySettings(t)
    \/ Begin(EligibleOps) /\ Quiescent
          /\ \E t \in Tasks, o \in DOMAIN orders, k \in 1..3 :
                RequestReturn(t, "cust", o, k)
    \/ Continue /\ \E t \in Tasks : RequestProduct(t)
    \/ Continue /\ \E t \in Tasks : RequestCheck(t)
    \/ Continue /\ \E t \in Tasks : RequestCreate(t)
    \/ Continue /\ \E t \in Tasks : RequestSaveLine(t)
    \/ Continue /\ \E t \in Tasks : RequestLog(t)

SpecEligible == InService /\ [][NextEligible]_vars

\* a store with three delivered orders: order 1 as in InReturns, with return
\* request 1 and admin1's pending request to refund it; order 2 with two
\* lines of p1 (one unit and two) and order 3 with one, and no return yet
InDelivery ==
    /\ products = Catalogue(DefaultPolicy)
    /\ settings = NoSettings
    /\ orders = <<Returned(1),
                  [NewOrder("cust", <<[product |-> "p1", qty |-> 1],
                                      [product |-> "p1", qty |-> 2]>>)
                      EXCEPT !.status = "DELIVERED", !.isDelivered = TRUE,
                             !.deliveredAt = 1],
                  [NewOrder("cust", OneUnit)
                      EXCEPT !.status = "DELIVERED", !.isDelivered = TRUE,
                             !.deliveredAt = 1]>>
    /\ returns = <<NewReturn(1, "cust", OneUnit[1], "REQUESTED")>>
    /\ approvals = <<NewApproval("admin1", "APPROVE_RETURN", "ReturnRequest", 1,
                        [status |-> "REFUNDED", refundAmount |-> 1,
                         restoreInventory |-> TRUE])>>
    /\ audit = <<AuditEvent(1, "RETURN_REQUESTED", "", "")>>
    /\ fin = <<>>
    /\ now = 1
    /\ task = [t \in Tasks |-> Idle]
    /\ ledger = [supplied |-> [p \in ProductIds |->
                                 products[p].countInStock + IF p = "p1" THEN 5 ELSE 0],
                 expected |-> [p \in ProductIds |-> products[p].countInStock],
                 restored |-> {}]
    /\ ops = 0

\* the return workflow: customers request returns and schedule pickups, the
\* super admin changes return statuses and approves requests, an admin marks
\* orders RETURNED, all concurrently
NextReturns ==
    \/ Begin(ReturnsOps) /\ \E t \in Tasks, o \in DOMAIN orders, k \in 1..2 :
          RequestReturn(t, "cust", o, k)
    \/ Continue /\ \E t \in Tasks : RequestProduct(t)
    \/ Continue /\ \E t \in Tasks : RequestCheck(t)
    \/ Continue /\ \E t \in Tasks : RequestCreate(t)
    \/ Continue /\ \E t \in Tasks : RequestSaveLine(t)
    \/ Continue /\ \E t \in Tasks : RequestLog(t)
    \/ Begin(ReturnsOps) /\ \E t \in Tasks, r \in DOMAIN returns,
                                b \in Payloads({"APPROVED", "REJECTED", "REFUNDED"}, {0}) :
          UpdateReturnStatus(t, "super", r, b)
    \/ Continue /\ \E t \in Tasks : SaveReturn(t)
    \/ Continue /\ \E t \in Tasks : SaveLine(t)
    \/ Continue /\ \E t \in Tasks : ReadProduct(t)
    \/ Continue /\ \E t \in Tasks : WriteProduct(t)
    \/ Continue /\ \E t \in Tasks : FinishReturn(t)
    \/ Begin(ReturnsOps) /\ \E t \in Tasks, r \in DOMAIN returns :
          SchedulePickup(t, "cust", r)
    \/ Continue /\ \E t \in Tasks : PickupSaveReturn(t)
    \/ Continue /\ \E t \in Tasks : PickupFindOrder(t)
    \/ Continue /\ \E t \in Tasks : PickupSaveLine(t)
    \/ Continue /\ \E t \in Tasks : PickupLog(t)
    \/ Begin(ReturnsOps) /\ \E t \in Tasks, a \in DOMAIN approvals :
          ApproveRequest(t, "super", a)
    \/ Continue /\ \E t \in Tasks : ReplaySaveReturn(t)
    \/ Continue /\ \E t \in Tasks : ReplaySaveLine(t)
    \/ Continue /\ \E t \in Tasks : ReplayReadProduct(t)
    \/ Continue /\ \E t \in Tasks : ReplayWriteProduct(t)
    \/ Continue /\ \E t \in Tasks : ReplayLog(t)
    \/ Continue /\ \E t \in Tasks : ResolveApproved(t)
    \/ Begin(ReturnsOps) /\ \E t \in Tasks, o \in DOMAIN orders :
          UpdateOrderStatus(t, "admin1", o, "RETURNED")
    \/ Continue /\ \E t \in Tasks : LookupReturn(t)
    \/ Continue /\ \E t \in Tasks : CreateReturn(t)
    \/ Continue /\ \E t \in Tasks : SaveStatus(t)

SpecReturns == InDelivery /\ [][NextReturns]_vars

\* the return workflow with one request at a time: a handler starts only
\* when every other has answered
NextMirror == NextReturns /\ (ops' # ops => Quiescent)

SpecMirror == InDelivery /\ [][NextMirror]_vars

\* checkout: customers place orders concurrently, with the money fields and
\* the line items of their choosing, starting from the store after
\* construction
NextCheckout ==
    \/ Begin(CheckoutOps) /\ \E t \in Tasks, ls \in Carts :
          \E bill \in Bills(ls) : AddOrderItems(t, "cust", ls, bill)
    \/ Continue /\ \E t \in Tasks : ReserveLine(t)
    \/ Continue /\ \E t \in Tasks, saved \in BOOLEAN : SaveOrder(t, saved)
    \/ Continue /\ \E t \in Tasks : RollbackLine(t)

SpecCheckout == Init /\ [][NextCheckout]_vars

\* the audit trail: orders are paid, delivered, cancelled and updated,
\* returns are requested, changed and approved, one request at a time, while
\* an AuditLog.create may reject and the super admin uses the activity log
\* routes
NextTrail ==
    \/ Begin(TrailOps) /\ Quiescent
          /\ \E t \in Tasks, o \in DOMAIN orders : UpdateOrderToPaid(t, "admin1", o)
    \/ Begin(TrailOps) /\ Quiescent
          /\ \E t \in Tasks, o \in DOMAIN orders :
                UpdateOrderToPaidUnlogged(t, "admin1", o)
    \/ Begin(TrailOps) /\ Quiescent
          /\ \E t \in Tasks, o \in DOMAIN orders :
                UpdateOrderToDelivered(t, "admin1", o)
    \/ Begin(TrailOps) /\ Quiescent
          /\ \E t \in Tasks, o \in DOMAIN orders :
                UpdateOrderToDeliveredUnlogged(t, "admin1", o)
    \/ Continue /\ \E t \in Tasks : SaveFlagged(t)
    \/ Begin(TrailOps) /\ Quiescent
          /\ \E t \in Tasks, o \in DOMAIN orders : CancelOrder(t, "cust", o)
    \/ Begin(TrailOps) /\ Quiescent
          /\ \E t \in Tasks, o \in DOMAIN orders : CancelOrderUnlogged(t, "cust", o)
    \/ Continue /\ \E t \in Tasks : CancelSave(t)
    \/ Continue /\ \E t \in Tasks, k \in 1..2 : CancelReadProduct(t, k)
    \/ Continue /\ \E t \in Tasks, k \in 1..2 : CancelWriteProduct(t, k)
    \/ Continue /\ \E t \in Tasks : CancelDone(t)
    \/ Begin(TrailOps) /\ Quiescent
          /\ \E t \in Tasks, o \in DOMAIN orders :
                UpdateOrderStatus(t, "admin1", o, "SHIPPED")
    \/ Continue /\ \E t \in Tasks : SaveStatus(t)
    \/ Continue /\ \E t \in Tasks : SaveStatusUnlogged(t)
    \/ Begin(TrailOps) /\ Quiescent
          /\ \E t \in Tasks, o \in DOMAIN orders : RequestReturn(t, "cust", o, 1)
    \/ Continue /\ \E t \in Tasks : RequestProduct(t)
    \/ Continue /\ \E t \in Tasks : RequestCheck(t)
    \/ Continue /\ \E t \in Tasks : RequestCreate(t)
    \/ Continue /\ \E t \in Tasks : RequestSaveLine(t)
    \/ Continue /\ \E t \in Tasks : RequestLog(t)
    \/ Continue /\ \E t \in Tasks : RequestLogUnlogged(t)
    \/ Begin(TrailOps) /\ Quiescent
          /\ \E t \in Tasks, r \in DOMAIN returns,
                 b \in Payloads({"REFUNDED", "PICKED_UP"}, {1}) :
                UpdateReturnStatus(t, "super", r, b)
    \/ Continue /\ \E t \in Tasks : SaveReturn(t)
    \/ Continue /\ \E t \in Tasks : SaveLine(t)
    \/ Continue /\ \E t \in Tasks : ReadProduct(t)
    \/ Continue /\ \E t \in Tasks : WriteProduct(t)
    \/ Continue /\ \E t \in Tasks : FinishReturn(t)
    \/ Continue /\ \E t \in Tasks : FinishReturnUnlogged(t)
    \/ Begin(TrailOps) /\ Quiescent
          /\ \E t \in Tasks, a \in DOMAIN approvals : ApproveRequest(t, "super", a)
    \/ Continue /\ \E t \in Tasks : ReplaySaveReturn(t)
    \/ Continue /\ \E t \in Tasks : ReplaySaveLine(t)
    \/ Continue /\ \E t \in Tasks : ReplayReadProduct(t)
    \/ Continue /\ \E t \in Tasks : ReplayWriteProduct(t)
    \/ Continue /\ \E t \in Tasks : ReplayLog(t)
    \/ Continue /\ \E t \in Tasks : ReplayLogUnlogged(t)
    \/ Continue /\ \E t \in Tasks : ResolveApproved(t)
    \/ Begin(TrailOps) /\ Quiescent
          /\ \E t \in Tasks : ClearActivityLogs(t, "super")
    \/ Begin(TrailOps) /\ Quiescent
          /\ \E t \in Tasks, id \in 1..(Len(audit) + 1) :
                DeleteActivityLog(t, "super", id)

SpecTrail == InBusiness /\ [][NextTrail]_vars

\* a store in which the customer has asked to return the second line of
\* order 2 (two units of p1; the first line is one unit of p1) and the super
\* admin has approved it: return 2 is APPROVED and so is, by the handler's
\* lookup of the line, the first line of the order; return 1, for the line
\* of order 1, is REQUESTED
InPickup ==
    /\ products = Catalogue(DefaultPolicy)
    /\ settings = NoSettings
    /\ orders = <<Returned(1),
                  [NewOrder("cust", <<[product |-> "p1", qty |-> 1],
                                      [product |-> "p1", qty |-> 2]>>)
                      EXCEPT !.status = "DELIVERED", !.isDelivered = TRUE,
                             !.deliveredAt = 1,
                             !.items[1].returnStatus = "APPROVED",
                             !.items[2].returnStatus = "REQUESTED",
                             !.items[2].returnRequestId = 2]>>
    /\ returns = <<NewReturn(1, "cust", OneUnit[1], "REQUESTED"),
                   [NewReturn(2, "cust", [product |-> "p1", qty |-> 2], "REQUESTED")
                       EXCEPT !.status = "APPROVED",
                              !.history = <<"REQUESTED", "APPROVED">>]>>
    /\ approvals = <<>>
    /\ audit = <<AuditEvent(1, "RETURN_REQUESTED", "", ""),
                 AuditEvent(2, "RETURN_REQUESTED", "", ""),
                 AuditEvent(2, "RETURN_APPROVED", "", "")>>
    /\ fin = <<>>
    /\ now = 1
    /\ task = [t \in Tasks |-> Idle]
    /\ ledger = [supplied |-> [p \in ProductIds |->
                                 products[p].countInStock + IF p = "p1" THEN 4 ELSE 0],
                 expected |-> [p \in ProductIds |-> products[p].countInStock],
                 restored |-> {}]
    /\ ops = 0

\* pickups: the customer and an admin ask for pickups and the super admin
\* changes return statuses, one request at a time
NextPickup ==
    \/ Begin(PickupOps) /\ Quiescent
          /\ \E t \in Tasks, u \in {"cust", "admin1"},
                 r \in 1..(Len(returns) + 1) :
                SchedulePickup(t, u, r)
    \/ Continue /\ \E t \in Tasks : PickupSaveReturn(t)
    \/ Continue /\ \E t \in Tasks : PickupFindOrder(t)
    \/ Continue /\ \E t \in Tasks : PickupSaveLine(t)
    \/ Continue /\ \E t \in Tasks : PickupLog(t)
    \/ Begin(PickupOps) /\ Quiescent
          /\ \E t \in Tasks, r \in DOMAIN returns,
                 b \in Payloads({"APPROVED", "REJECTED", "PICKED_UP"}, {0}) :
                UpdateReturnStatus(t, "super", r, b)
    \/ Continue /\ \E t \in Tasks : SaveReturn(t)
    \/ Continue /\ \E t \in Tasks : SaveLine(t)
    \/ Continue /\ \E t \in Tasks : ReadProduct(t)
    \/ Continue /\ \E t \in Tasks : WriteProduct(t)
    \/ Continue /\ \E t \in Tasks : FinishReturn(t)

SpecPickup == InPickup /\ [][NextPickup]_vars

\* writes that fail: cancellations, return status changes and approvals, one
\* request at a time, in which a product save or the creation of the
\* financial record may reject
NextFailure ==
    \/ Begin(FailureOps) /\ Quiescent
          /\ \E t \in Tasks, o \in DOMAIN orders : CancelOrder(t, "cust", o)
    \/ Continue /\ \E t \in Tasks : CancelSave(t)
    \/ Continue /\ \E t \in Tasks, k \in 1..2 : CancelReadProduct(t, k)
    \/ Continue /\ \E t \in Tasks, k \in 1..2 : CancelWriteProduct(t, k)
    \/ Continue /\ \E t \in Tasks, k \in 1..2 : CancelWriteProductFailed(t, k)
    \/ Continue /\ \E t \in Tasks : CancelDone(t)
    \/ Begin(FailureOps) /\ Quiescent
          /\ \E t \in Tasks, r \in DOMAIN returns,
                 b \in Payloads({"APPROVED", "REFUNDED", "PICKED_UP"}, {0, 1}) :
                UpdateReturnStatus(t, "super", r, b)
    \/ Continue /\ \E t \in Tasks : SaveReturn(t)
    \/ Continue /\ \E t \in Tasks : SaveLine(t)
    \/ Continue /\ \E t \in Tasks : ReadProduct(t)
    \/ Continue /\ \E t \in Tasks : WriteProduct(t)
    \/ Continue /\ \E t \in Tasks : WriteProductFailed(t)
    \/ Continue /\ \E t \in Tasks : FinishReturn(t)
    \/ Continue /\ \E t \in Tasks : FinishReturnUnrecorded(t)
    \/ Begin(FailureOps) /\ Quiescent
          /\ \E t \in Tasks, a \in DOMAIN approvals : ApproveRequest(t, "super", a)
    \/ Continue /\ \E t \in Tasks : ReplaySaveReturn(t)
    \/ Continue /\ \E t \in Tasks : ReplaySaveLine(t)
    \/ Continue /\ \E t \in Tasks : ReplayReadProduct(t)
    \/ Continue /\ \E t \in Tasks : ReplayWriteProduct(t)
    \/ Continue /\ \E t \in Tasks : ReplayWriteProductFailed(t)
    \/ Continue /\ \E t \in Tasks : ReplayLog(t)
    \/ Continue /\ \E t \in Tasks : ResolveApproved(t)

SpecFailure == InBusiness /\ [][NextFailure]_vars

\* the history of a return: the super admin changes the status of returns
\* and the customer asks for pickups, all concurrently, in the store of the
\* pickup scenario
NextHistory ==
    \/ Begin(HistoryOps)
          /\ \E t \in Tasks, r \in DOMAIN returns,
                 b \in Payloads({"APPROVED", "REJECTED"}, {0}) :
                UpdateReturnStatus(t, "super", r, b)
    \/ Continue /\ \E t \in Tasks : SaveReturn(t)
    \/ Continue /\ \E t \in Tasks : SaveLine(t)
    \/ Continue /\ \E t \in Tasks : ReadProduct(t)
    \/ Continue /\ \E t \in Tasks : WriteProduct(t)
    \/ Continue /\ \E t \in Tasks : FinishReturn(t)
    \/ Begin(HistoryOps)
          /\ \E t \in Tasks, r \in DOMAIN returns : SchedulePickup(t, "cust", r)
    \/ Continue /\ \E t \in Tasks : PickupSaveReturn(t)
    \/ Continue /\ \E t \in Tasks : PickupFindOrder(t)
    \/ Continue /\ \E t \in Tasks : PickupSaveLine(t)
    \/ Continue /\ \E t \in Tasks : PickupLog(t)

SpecHistory == InPickup /\ [][NextHistory]_vars

\* the whole program, from the empty store
Next ==
    NextStock \/ NextGate \/ NextReplay \/ NextPay \/ NextTrip \/ NextEligible
        \/ NextReturns \/ NextTrail \/ NextCheckout \/ NextPickup
        \/ NextFailure \/ NextHistory
Spec == Init /\ [][Next]_vars

(***************************************************************************)
(* InventoryLedger: properties                                             *)
(***************************************************************************)
\* a checkout that has answered
Checkout(t) == task[t].op = "addOrderItems" /\ task[t].pc = "done"

\* C1: in every reachable state, whatever the interleaving of checkouts,
\* rollbacks, cancellations, return restocks and manual adjustments, the
\* countInStock of every product is at least zero
StockNeverNegative ==
    \A p \in ProductIds : products[p].countInStock >= 0

\* C2: once every handler has answered, countInStock is the initial stock
\* minus the reservations plus the releases and adjustments: no write of a
\* reservation or a release was lost or overwritten
LedgerExact ==
    Quiescent =>
        \A p \in ProductIds :
            products[p].exists => products[p].countInStock = ledger.expected[p]

\* C3: a checkout that failed (a missing product, insufficient stock, a
\* failed save) has released exactly what it reserved, line by line, left
\* every other counter alone and created no order: its net effect on every
\* countInStock is zero
AllOrNothing ==
    \A t \in Tasks :
        Checkout(t) /\ task[t].res # 201 =>
            /\ \A p \in ProductIds : products[p].exists => task[t].net[p] = 0
            /\ task[t].created = NoRef

\* C3 happens: a checkout failed after it had reserved a line, and released it
RolledBack ==
    \E t \in Tasks : Checkout(t) /\ task[t].res # 201 /\ task[t].undone > 0

\* the quantity line k of order o holds of product p: the order is persisted
\* and not cancelled, the line has not been restocked through a return
Holds(o, k, p) ==
    IF /\ orders[o].items[k].product = p
       /\ orders[o].status # "CANCELLED" /\ ~orders[o].isCancelled
       /\ <<o, k>> \notin ledger.restored
    THEN orders[o].items[k].qty ELSE 0

Committed(p) ==
    SumSeq([o \in DOMAIN orders |->
              SumSeq([k \in DOMAIN orders[o].items |-> Holds(o, k, p)])])

\* C4: stock is never oversold: for every stock-keeping product the quantity
\* on persisted, non-cancelled orders (lines restocked through a return
\* aside) never exceeds the units ever supplied, the initial stock plus the
\* manual additions
NeverOversold ==
    \A p \in ProductIds :
        products[p].exists /\ products[p].isStockEnabled =>
            Committed(p) <= ledger.supplied[p]

(***************************************************************************)
(* ApprovalGate: properties                                                *)
(***************************************************************************)
\* a step of handler t that belongs to an updateReturnStatus call made by a
\* non-super admin for one of the given target statuses
AdminCall(t, statuses) ==
    /\ task'[t] # task[t]
    /\ task'[t].op = "updateReturnStatus"
    /\ Role(task'[t].user) # "super_admin"
    /\ task'[t].body.status \in statuses

\* such a step changes no return request, order line, stock counter,
\* financial record or audit entry; it either leaves the approvals alone or
\* appends the one PENDING request the call answers 202 for; with a PENDING
\* request for the return on file, the call is refused and creates nothing
OnlyAsks(t) ==
    /\ UNCHANGED <<returns, orders, products, fin, audit>>
    /\ \/ approvals' = approvals
       \/ /\ approvals' = Append(approvals,
                NewApproval(task'[t].user, "APPROVE_RETURN", "ReturnRequest",
                            task'[t].ret, task'[t].body))
          /\ task'[t].pc = "done" /\ task'[t].res = 202
    /\ task'[t].pc = "done" /\ task'[t].res = 202 => approvals' # approvals
    /\ Free(t) /\ PendingExists("APPROVE_RETURN", task'[t].ret) =>
          /\ task'[t].pc = "done" /\ task'[t].res = 400
          /\ approvals' = approvals

OnePending ==
    \A a, b \in DOMAIN approvals :
        /\ approvals[a].status = "PENDING" /\ approvals[b].status = "PENDING"
        /\ approvals[a].action = approvals[b].action
        /\ approvals[a].targetId = approvals[b].targetId
        => a = b

\* whether a status change with body b of a return on line k (of product p)
\* restocks
Restocks(b, k, p) ==
    b.restoreInventory /\ b.status \in RestockStatuses /\ k # 0
        /\ products[p].exists

\* what the direct updateReturnStatus of the super admin makes of the view
\* pre, for body b and a return on line k of order o
DirectOutcome(pre, b, o, k) ==
    LET p == IF k = 0 THEN "p3" ELSE orders[o].items[k].product
        n == IF Restocks(b, k, p) THEN 1 ELSE 0
    IN [status |-> b.status,
        refundAmount |-> IF b.refundAmount # 0 THEN b.refundAmount
                         ELSE pre.refundAmount,
        history |-> pre.history + 1,
        line |-> IF k = 0 THEN "" ELSE b.status,
        stock |-> pre.stock + IF n = 1 THEN orders[o].items[k].qty ELSE 0,
        refunds |-> pre.refunds + IF b.status = "REFUNDED" THEN 1 ELSE 0,
        audits |-> pre.audits + n + 1]

\* the audit actions written since the view pre was taken
Emitted(pre) ==
    [i \in 1..(Len(audit) - pre.audits) |-> audit[pre.audits + i].action]

\* the audit actions of the direct updateReturnStatus
DirectActions(b, o, k) ==
    LET p == IF k = 0 THEN "p3" ELSE orders[o].items[k].product
    IN (IF Restocks(b, k, p) THEN <<"INVENTORY_RESTORED">> ELSE <<>>)
           \o <<"RETURN_" \o b.status>>

\* handler t has just made the change of body b to a return and answered 200
Changed(t, op) ==
    /\ task[t].op = op /\ task[t].pc = "done" /\ task[t].res = 200
    /\ "pre" \in DOMAIN task[t]

\* the store shows for handler t what the direct call produces
AsDirect(t) ==
    LET l == task[t] IN
    /\ View(l.ret, l.order, l.item) = DirectOutcome(l.pre, l.body, l.order, l.item)
    /\ Emitted(l.pre) = DirectActions(l.body, l.order, l.item)

\* the direct call by the super admin is what DirectOutcome says
DirectIsDirect ==
    \A t \in Tasks : Changed(t, "updateReturnStatus") => AsDirect(t)

\* C7: a status change a non-super admin asked for and the super admin
\* approved leaves the return's status, refundAmount and history length, the
\* line's returnStatus, the stock, the financial records and the audit actions
\* as the same change made directly by the super admin leaves them
ReplayAsDirect ==
    \A t \in Tasks :
        Changed(t, "updateReturnStatus") \/ Changed(t, "approveRequest")
            => AsDirect(t)

\* a step of handler t that belongs to a rejectRequest call
RejectCall(t) ==
    task'[t] # task[t] /\ task'[t].op = "rejectRequest"

\* C8: rejectRequest sets the approval request to REJECTED, with the
\* resolver and the reason, and changes nothing else: the return request,
\* the product and the order it was about stay as they were
RejectOnlyResolves ==
    [][\A t \in Tasks : RejectCall(t) =>
          /\ UNCHANGED <<returns, orders, products, fin, audit>>
          /\ \/ approvals' = approvals /\ ~(task'[t].pc = "done" /\ task'[t].res = 200)
             \/ /\ task'[t].pc = "done" /\ task'[t].res = 200
                /\ approvals' = [approvals EXCEPT
                      ![task[t].approval] =
                          [@ EXCEPT !.status = "REJECTED",
                                    !.approvedBy = task[t].user,
                                    !.rejectionReason = task[t].reason]]]_vars

\* C8 happens: a rejection was answered, the request is REJECTED and the
\* return it was about is still REQUESTED
Rejected ==
    \E t \in Tasks :
        /\ task[t].op = "rejectRequest" /\ task[t].pc = "done" /\ task[t].res = 200
        /\ LET a == approvals[task[t].approval] IN
              /\ a.status = "REJECTED" /\ a.approvedBy = "super"
              /\ a.rejectionReason = "no"
              /\ a.action = "APPROVE_RETURN"
              /\ returns[a.targetId].status = "REQUESTED"

(***************************************************************************)
(* OrderEngine: properties                                                 *)
(***************************************************************************)
\* the entry points that mark an order as PAID
PaidEntries ==
    {"updateOrderToPaid", "updateOrderStatus", "updateOrdersStatusBulk",
     "verifyCashfreePayment", "cashfreeWebhook"}

\* C9: a request to mark an order PAID that finds it paid already is refused
\* as a conflict, through whichever entry point it comes (the gateway's
\* webhook, which only acknowledges, by doing nothing), and leaves the order
\* as it was
PaidTwiceRefused ==
    \A t \in Tasks :
        /\ task[t].op \in PaidEntries /\ task[t].pc = "done"
        /\ task[t].status = "PAID" /\ task[t].wasPaid
        => /\ ~task[t].wrote
           /\ task[t].op # "cashfreeWebhook" => task[t].res = 400

\* C10: paidAt and deliveredAt are set once: no step changes a paidAt or a
\* deliveredAt that holds a value
TimestampsSetOnce ==
    [][\A o \in DOMAIN orders :
          /\ orders[o].paidAt # NoTime => orders'[o].paidAt = orders[o].paidAt
          /\ orders[o].deliveredAt # NoTime =>
                orders'[o].deliveredAt = orders[o].deliveredAt]_vars

\* C11: an order enters CANCELLED only while it is not delivered: no order
\* has status CANCELLED, or isCancelled set, together with isDelivered,
\* whichever handler made the change (cancelOrder, updateOrderStatus,
\* updateOrdersStatusBulk)
CancelledNeverDelivered ==
    \A o \in DOMAIN orders :
        orders[o].status = "CANCELLED" \/ orders[o].isCancelled
            => ~orders[o].isDelivered

\* C12: create-then-cancel is a round trip on stock: when the only two
\* requests so far were a successful addOrderItems and the cancellation of
\* the order it created (by cancelOrder or by a status update to CANCELLED),
\* every product's countInStock is what it was before the order was placed,
\* also for lines of a product that keeps no stock
RoundTrip ==
    /\ ops = 2 /\ Quiescent
    /\ Len(orders) = 1 /\ orders[1].status = "CANCELLED"
    => \A p \in ProductIds :
          products[p].countInStock = ledger.supplied[p]

\* C13: the legacy flags agree with status: PAID implies isPaid, DELIVERED
\* implies isDelivered, and status is CANCELLED exactly when isCancelled is
\* set, whenever no handler is half way through its writes
FlagsFollowStatus ==
    Quiescent =>
        \A o \in DOMAIN orders :
            /\ orders[o].status = "PAID" => orders[o].isPaid
            /\ orders[o].status = "DELIVERED" => orders[o].isDelivered
            /\ orders[o].status = "CANCELLED" <=> orders[o].isCancelled

(***************************************************************************)
(* ReturnWorkflow: properties                                              *)
(***************************************************************************)
\* the return window of product p as the policy on file states it, seven
\* days when it states none
StatedWindow(p) ==
    LET policy == products[p].returnPolicy IN
    IF products[p].exists /\ "returnWindowDays" \in DOMAIN policy
    THEN policy.returnWindowDays * DayMs ELSE 7 * DayMs

\* the eligibility conditions that fail for line k of order o in this state
Failing(o, k) ==
    LET ord == orders[o]
        p == ord.items[k].product
        policy == products[p].returnPolicy
    IN
    {c \in {"disabled", "undelivered", "nonreturnable", "expired", "active"} :
        \/ c = "disabled" /\ settings.exists /\ ~settings.areReturnsActive
        \/ c = "undelivered" /\ ~ord.isDelivered
        \/ c = "nonreturnable"
              /\ (~products[p].exists
                  \/ ("isReturnable" \in DOMAIN policy /\ ~policy.isReturnable))
        \/ c = "expired" /\ ord.isDelivered /\ products[p].exists
              /\ now > ord.deliveredAt + StatedWindow(p)
        \/ c = "active" /\ ord.items[k].returnStatus \notin {"NONE", "REJECTED"}}

\* the last instant of the return window of line k of order o
WindowEnd(o, k) == orders[o].deliveredAt + StatedWindow(orders[o].items[k].product)

\* a step of a getReturnEligibility call in slot t
EligibilityStep(t) ==
    task'[t] # task[t] /\ task'[t].op = "getReturnEligibility"

\* the step with which a getReturnEligibility call answers with its list
Reports(t) ==
    EligibilityStep(t) /\ task'[t].pc = "done" /\ task'[t].res = 200

\* the step with which a requestReturn call decides
Decides(t) ==
    task[t].op = "requestReturn" /\ task[t].pc = "check" /\ task'[t] # task[t]

\* C14: getReturnEligibility reports a line eligible exactly when returns are
\* on (or no settings exist), the order is delivered, the product exists and
\* is returnable (by default it is), now is within deliveredAt plus the
\* return window (seven days by default) and the line's returnStatus is NONE
\* or REJECTED; no step of the call changes the store
EligibleAsStated ==
    [][\A t \in Tasks :
          /\ EligibilityStep(t) =>
                UNCHANGED <<products, orders, returns, approvals, audit, fin,
                            settings>>
          /\ Reports(t) =>
                LET o == task'[t].order IN
                /\ DOMAIN task'[t].eligibility = DOMAIN orders[o].items
                /\ \A k \in DOMAIN orders[o].items :
                      task'[t].eligibility[k].isEligible <=> Failing(o, k) = {}]_vars

\* C14 happens: a call was answered with one line eligible and another not
SomeEligible ==
    \E t \in Tasks :
        /\ task[t].op = "getReturnEligibility" /\ task[t].pc = "done"
        /\ task[t].res = 200
        /\ \E k, j \in DOMAIN task[t].eligibility :
              /\ task[t].eligibility[k].isEligible
              /\ ~task[t].eligibility[j].isEligible

\* C15: with every other condition met, getReturnEligibility and
\* requestReturn accept a return at the last instant of the window, now =
\* deliveredAt + the return window, and refuse it one instant later
BoundaryInclusive ==
    [][\A t \in Tasks :
          /\ Reports(t) =>
                LET o == task'[t].order IN
                \A k \in DOMAIN orders[o].items :
                    Failing(o, k) \ {"expired"} = {} =>
                        /\ now = WindowEnd(o, k) =>
                              task'[t].eligibility[k].isEligible
                        /\ now = WindowEnd(o, k) + 1 =>
                              ~task'[t].eligibility[k].isEligible
          /\ Decides(t) =>
                LET o == task[t].order
                    k == task[t].item
                IN Failing(o, k) \ {"expired"} = {} =>
                      /\ now = WindowEnd(o, k) => task'[t].pc = "create"
                      /\ now = WindowEnd(o, k) + 1 =>
                            task'[t].pc = "done" /\ task'[t].res = 400]_vars

\* C15 happens: a return requested at the last instant of a window of at
\* least a day was accepted
AcceptedAtEnd ==
    \E t \in Tasks :
        /\ task[t].op = "requestReturn" /\ task[t].pc = "done"
        /\ task[t].res = 201
        /\ task[t].at = WindowEnd(task[t].order, task[t].item)
        /\ task[t].at > orders[task[t].order].deliveredAt
        /\ returns[task[t].ret].status = "REQUESTED"

\* C16: every failing condition is surfaced: the reasons getReturnEligibility
\* lists for a line are the conditions that fail, one reason each, and
\* isEligible holds exactly when there is none; a requestReturn that is
\* refused carries all the failing conditions, not only the first
AllReasonsSurfaced ==
    [][\A t \in Tasks :
          /\ Reports(t) =>
                LET o == task'[t].order IN
                \A k \in DOMAIN orders[o].items :
                    LET e == task'[t].eligibility[k] IN
                    /\ {e.reasons[i] : i \in DOMAIN e.reasons} = Failing(o, k)
                    /\ Len(e.reasons) = Cardinality(Failing(o, k))
                    /\ e.isEligible <=> e.reasons = <<>>
          /\ Decides(t) /\ task'[t].pc = "done" =>
                {task'[t].reasons[i] : i \in DOMAIN task'[t].reasons}
                    = Failing(task[t].order, task[t].item)]_vars

\* a step of a requestReturn call in slot t that creates the return request
Creates(t) ==
    task[t].op = "requestReturn" /\ task[t].pc = "create" /\ task'[t] # task[t]

\* a step of a requestReturn call in slot t that has not been accepted
Unaccepted(t) ==
    /\ task'[t] # task[t] /\ task'[t].op = "requestReturn"
    /\ task'[t].pc \in {"product", "check"}
          \/ (task'[t].pc = "done" /\ task'[t].res # 201)

\* C17: requestReturn applies the eligibility predicate at write time: it
\* creates a ReturnRequest for a line only in a state and at a time at which
\* getReturnEligibility reports the line eligible, it refuses only when the
\* line is not eligible, and a call that is refused creates no ReturnRequest
\* and leaves the order as it is
WritesOnlyIfEligible ==
    [][\A t \in Tasks :
          /\ Creates(t) => Failing(task[t].order, task[t].item) = {}
          /\ Decides(t) /\ task'[t].pc = "done" =>
                Failing(task[t].order, task[t].item) # {}
          /\ Unaccepted(t) => UNCHANGED <<returns, orders>>]_vars

\* the return requests of product p on order o that are active (not REJECTED)
ActiveReturns(o, p) ==
    {r \in DOMAIN returns :
        /\ returns[r].order = o /\ returns[r].product = p
        /\ returns[r].status # "REJECTED"}

\* C18: an order line has at most one active ReturnRequest (one whose status
\* is not REJECTED), also under concurrent requestReturn calls and the
\* order-level RETURNED action: an order never has more active requests for
\* a product than it has lines of that product
OneActiveReturn ==
    \A o \in DOMAIN orders, p \in ProductIds :
        Cardinality(ActiveReturns(o, p))
            <= Cardinality({k \in DOMAIN orders[o].items :
                               orders[o].items[k].product = p})

\* C19: whenever no handler is at work, the returnStatus of the line a
\* ReturnRequest was created for (the line whose returnRequestId names it)
\* is the status of the request's latest history entry, also on orders with
\* two lines of the same product
MirrorsHistory ==
    Quiescent =>
        \A r \in DOMAIN returns, o \in DOMAIN orders :
            \A k \in DOMAIN orders[o].items :
                orders[o].items[k].returnRequestId = r =>
                    orders[o].items[k].returnStatus
                        = returns[r].history[Len(returns[r].history)]

\* the transitions of a ReturnRequest the workflow allows
Edges ==
    {<<"REQUESTED", "APPROVED">>, <<"APPROVED", "PICKUP_SCHEDULED">>,
     <<"PICKUP_SCHEDULED", "PICKED_UP">>, <<"PICKED_UP", "REFUNDED">>,
     <<"PICKED_UP", "REPLACED">>, <<"REFUNDED", "COMPLETED">>,
     <<"REPLACED", "COMPLETED">>, <<"REQUESTED", "REJECTED">>,
     <<"APPROVED", "REJECTED">>}

\* C20: a ReturnRequest changes only along the edges REQUESTED -> APPROVED ->
\* PICKUP_SCHEDULED -> PICKED_UP -> {REFUNDED | REPLACED} -> COMPLETED, and
\* to REJECTED from REQUESTED or APPROVED: a direct call or an approval
\* replay that asks for any other transition leaves the request as it is
OnlyAlongEdges ==
    [][\A r \in DOMAIN returns :
          returns'[r] # returns[r] =>
              <<returns[r].status, returns'[r].status>> \in Edges]_vars

(***************************************************************************)
(* Refunds, restocks and the audit trail: properties                       *)
(***************************************************************************)
\* the FinancialRecords of type REFUND that reference return request r
RefundsOf(r) ==
    {i \in DOMAIN fin :
        fin[i].type = "REFUND" /\ fin[i].model = "ReturnRequest" /\ fin[i].id = r}

\* return request r has entered REFUNDED at some point of its history
EnteredRefunded(r) ==
    \E h \in DOMAIN returns[r].history : returns[r].history[h] = "REFUNDED"

\* C21: whenever no handler is at work, a ReturnRequest that has entered
\* REFUNDED, by a direct call or by an approval replay, is referenced by
\* exactly one FinancialRecord of type REFUND, and any other by none
OneRefundRecord ==
    Quiescent =>
        \A r \in DOMAIN returns :
            Cardinality(RefundsOf(r)) = IF EnteredRefunded(r) THEN 1 ELSE 0

\* handler t has just moved a return into REFUNDED and answered 200
Refunded(t) ==
    /\ Changed(t, "updateReturnStatus") \/ Changed(t, "approveRequest")
    /\ task[t].body.status = "REFUNDED"

\* the INVENTORY_RESTORED entries written since the view pre was taken
RestoredSince(pre) ==
    Cardinality({i \in DOMAIN Emitted(pre) : Emitted(pre)[i] = "INVENTORY_RESTORED"})

\* C22: a return moved into REFUNDED with restoreInventory set raises the
\* product's countInStock by the quantity of the returned line and writes one
\* INVENTORY_RESTORED entry besides the RETURN_REFUNDED entry; without
\* restoreInventory the stock stays and no INVENTORY_RESTORED entry is written
RefundRestocks ==
    \A t \in Tasks :
        Refunded(t) =>
            LET l == task[t]
                r == returns[l.ret]
                d == products[r.product].countInStock - l.pre.stock
                last == Emitted(l.pre)[Len(Emitted(l.pre))]
            IN /\ last = "RETURN_REFUNDED"
               /\ IF l.body.restoreInventory
                  THEN d = r.qty /\ RestoredSince(l.pre) = 1
                  ELSE d = 0 /\ RestoredSince(l.pre) = 0

\* the audit entries of the status transitions of order o, oldest first
TransitionsOf(o) ==
    LET OfOrder(e) == e.orderId = o /\ e.statusTo # ""
    IN SelectSeq(audit, OfOrder)

\* C23: whenever no handler is at work, the audit entries of an order's
\* status transitions retrace the order: the first starts at CREATED, each
\* starts at the status the one before it ended at, and the last ends at the
\* order's status, so that every persisted transition (pay, deliver, cancel,
\* status update, bulk update, gateway confirmation) has its one entry with
\* the right statusFrom and statusTo, and nothing else has one
OneEntryPerTransition ==
    Quiescent =>
        \A o \in DOMAIN orders :
            LET es == TransitionsOf(o) IN
            /\ orders[o].status =
                   IF es = <<>> THEN "CREATED" ELSE es[Len(es)].statusTo
            /\ es # <<>> => es[1].statusFrom = "CREATED"
            /\ \A i \in 1..(Len(es) - 1) : es[i + 1].statusFrom = es[i].statusTo

\* handler t has answered after an AuditLog.create of its own rejected
LogFailed(t) ==
    task[t].pc = "done" /\ "log" \in DOMAIN task[t]

\* the state change handler t was called for is in the store
Persisted(t) ==
    LET l == task[t] IN
    CASE l.op = "updateOrderToPaid" ->
            orders[l.order].isPaid /\ orders[l.order].status = "PAID"
      [] l.op = "updateOrderToDelivered" ->
            orders[l.order].isDelivered /\ orders[l.order].status = "DELIVERED"
      [] l.op = "cancelOrder" ->
            orders[l.order].isCancelled /\ orders[l.order].status = "CANCELLED"
      [] l.op = "updateOrderStatus" -> orders[l.order].status = "SHIPPED"
      [] l.op = "requestReturn" ->
            l.ret \in DOMAIN returns /\ returns[l.ret].status = "REQUESTED"
      [] l.op = "updateReturnStatus" ->
            /\ returns[l.ret].status = l.body.status
            /\ l.body.status = "REFUNDED" => RefundsOf(l.ret) # {}
      [] l.op = "approveRequest" ->
            /\ returns[l.ret].status = l.body.status
            /\ approvals[l.approval].status = "APPROVED"
      [] OTHER -> TRUE

\* C24: a handler whose AuditLog.create rejects (updateOrderToPaid,
\* cancelOrder, updateOrderToDelivered, updateOrderStatus, requestReturn,
\* updateReturnStatus, approveRequest) still persists the state change it was
\* called for, with the financial record that belongs to it, and answers
\* with its success result
LoggingNeverAborts ==
    \A t \in Tasks :
        LogFailed(t) => task[t].res \in {200, 201} /\ Persisted(t)

\* C25: the audit trail is append-only: every step leaves every AuditLog
\* entry there is where it is and as it is, so the trail only grows
AppendOnly ==
    [][/\ Len(audit') >= Len(audit)
       /\ \A i \in DOMAIN audit : audit'[i] = audit[i]]_vars

(***************************************************************************)
(* Checkout: properties                                                    *)
(***************************************************************************)
\* what the lines, the tax and the shipping of an order add up to
Due(ord) ==
    ItemsTotal([k \in DOMAIN ord.items |-> ord.items[k].qty], ord.bill.prices)
        + ord.bill.taxPrice + ord.bill.shippingPrice

\* C26: every order addOrderItems has persisted carries a totalPrice that is
\* the sum over its lines of qty * price plus taxPrice plus shippingPrice
TotalAddsUp ==
    \A o \in DOMAIN orders : orders[o].bill.totalPrice = Due(orders[o])

\* the step of the checkout in slot t that reserves one line
Reserves(t) ==
    task[t].op = "addOrderItems" /\ task[t].pc = "reserve" /\ task'[t] # task[t]

\* C27: reserving a line of a product that keeps no stock always succeeds,
\* whatever the quantity, and leaves countInStock as it is; reserving a line
\* of a stock-keeping product succeeds exactly when countInStock >= qty in the
\* state the write is made in, and the same step takes exactly qty off
\* countInStock; a refused reservation and every other product's counter
\* change nothing
ReserveAsStated ==
    [][\A t \in Tasks :
          Reserves(t) =>
              LET line == task[t].lines[task[t].i]
                  p == line.product
                  accepted == task'[t].pc # "rollback"
              IN products[p].exists =>
                    /\ \A q \in ProductIds \ {p} : products'[q] = products[q]
                    /\ IF products[p].isStockEnabled
                       THEN /\ accepted <=> products[p].countInStock >= line.qty
                            /\ products'[p].countInStock =
                                   products[p].countInStock
                                       - IF accepted THEN line.qty ELSE 0
                       ELSE accepted /\ products'[p] = products[p]]_vars

\* C27 happens: an order took the last units of the stock-keeping product,
\* and an order holds more units of the product that keeps no stock than its
\* counter, which is where it was
ReservedToTheLast ==
    /\ products["p1"].countInStock = 0
    /\ products["p2"].countInStock = InitStock
    /\ \E o \in DOMAIN orders :
          orders[o].items[1].product = "p1" /\ orders[o].items[1].qty = InitStock
    /\ \E o \in DOMAIN orders :
          orders[o].items[1].product = "p2" /\ orders[o].items[1].qty > InitStock

\* the lines of a cart that are of a stock-keeping product, as entries of
\* stockUpdatedItems, in list order
RECURSIVE StockEntries(_)
StockEntries(lines) ==
    IF lines = <<>> THEN <<>>
    ELSE LET line == Head(lines)
             rest == StockEntries(Tail(lines))
         IN IF products[line.product].isStockEnabled
            THEN <<[id |-> line.product, qty |-> line.qty]>> \o rest
            ELSE rest

\* the step with which the checkout in slot t makes its order visible
Persists(t) ==
    /\ task[t].op = "addOrderItems" /\ task[t].pc = "save"
    /\ Len(orders') = Len(orders) + 1

\* the order has been persisted when every stock-keeping line of the cart has
\* been reserved, one after the other in list order
ReservedFirst(t) ==
    task[t].stockUpdatedItems = StockEntries(task[t].lines)

\* C28: an order becomes visible only once every stock-keeping line of its
\* checkout has been reserved, one at a time in list order, and it is new:
\* status CREATED, isPaid, isDelivered and isCancelled false, every line's
\* returnStatus NONE
ReserveThenPersist ==
    [][\A t \in Tasks :
          Persists(t) =>
              LET new == orders'[Len(orders')] IN
              /\ ReservedFirst(t)
              /\ new.status = "CREATED"
              /\ ~new.isPaid /\ ~new.isDelivered /\ ~new.isCancelled
              /\ \A k \in DOMAIN new.items : new.items[k].returnStatus = "NONE"]_vars

(***************************************************************************)
(* The order-level RETURNED action and the lines under return: properties  *)
(***************************************************************************)
\* a step of an updateOrderStatus call in slot t that sets status RETURNED
ReturnedStep(t) ==
    /\ task'[t] # task[t]
    /\ task'[t].op = "updateOrderStatus" /\ task'[t].status = "RETURNED"

\* C29: updateOrderStatus with status RETURNED leaves every ReturnRequest
\* there is as it is, creates requests only in status APPROVED with the one
\* history entry APPROVED, and when it has answered every line of the order
\* has a request of its own (its returnRequestId names a request of the order
\* for the line's product that no other line names), the order has as many
\* requests as lines, and a line that had none has returnStatus APPROVED
ReturnedSynthesizes ==
    [][\A t \in Tasks :
          ReturnedStep(t) =>
              /\ \A r \in DOMAIN returns : returns'[r] = returns[r]
              /\ \A r \in DOMAIN returns' \ DOMAIN returns :
                    /\ returns'[r].status = "APPROVED"
                    /\ returns'[r].history = <<"APPROVED">>
              /\ task'[t].pc = "done" /\ task'[t].res = 200 =>
                    LET o == task'[t].order
                        items == orders'[o].items
                    IN /\ \A k \in DOMAIN items :
                             LET r == items[k].returnRequestId IN
                             /\ r \in DOMAIN returns'
                             /\ returns'[r].order = o
                             /\ returns'[r].product = items[k].product
                             /\ \A j \in DOMAIN items \ {k} :
                                   items[j].returnRequestId # r
                             /\ items[k].returnStatus # "NONE"
                       /\ Cardinality({r \in DOMAIN returns' : returns'[r].order = o})
                              = Len(items)]_vars

\* the handlers that change an order's status
OrderLevel ==
    {"updateOrderToPaid", "updateOrderToDelivered", "cancelOrder",
     "updateOrderStatus", "updateOrdersStatusBulk", "verifyCashfreePayment",
     "cashfreeWebhook"}

\* C30: no step of an order-level status handler (updateOrderToPaid,
\* updateOrderToDelivered, cancelOrder, updateOrderStatus with any status,
\* RETURNED included, updateOrdersStatusBulk) changes the returnStatus or the
\* returnRequestId of a line whose returnStatus is not NONE
LinesUnderReturnKept ==
    [][\A t \in Tasks :
          task'[t] # task[t] /\ task[t].op \in OrderLevel =>
              \A o \in DOMAIN orders : \A k \in DOMAIN orders[o].items :
                  orders[o].items[k].returnStatus # "NONE" =>
                      /\ orders'[o].items[k].returnStatus
                             = orders[o].items[k].returnStatus
                      /\ orders'[o].items[k].returnRequestId
                             = orders[o].items[k].returnRequestId]_vars

(***************************************************************************)
(* Pickups, failures and repeated calls: properties                        *)
(***************************************************************************)
\* a step of a schedulePickup call in slot t
PickupStep(t) ==
    task'[t] # task[t] /\ task'[t].op = "schedulePickup"

\* C31: schedulePickup goes ahead exactly when the ReturnRequest exists, is
\* APPROVED and belongs to the caller; it then sets the request to
\* PICKUP_SCHEDULED with one more history entry, and when it answers with
\* success the line the request was made for says PICKUP_SCHEDULED; a call
\* that fails leaves the ReturnRequests, the orders and the audit trail alone
PickupAsStated ==
    [][\A t \in Tasks :
          PickupStep(t) =>
              LET r == task'[t].ret IN
              /\ Free(t) =>
                    (task'[t].pc # "done" <=>
                        /\ r \in DOMAIN returns
                        /\ returns[r].status = "APPROVED"
                        /\ returns[r].user = task'[t].user)
              /\ task'[t].pc = "done" /\ task'[t].res # 200 =>
                    UNCHANGED <<returns, orders, audit>>
              /\ returns' # returns =>
                    returns' = [returns EXCEPT
                        ![r].status = "PICKUP_SCHEDULED",
                        ![r].history = Append(@, "PICKUP_SCHEDULED")]
              /\ task'[t].pc = "done" /\ task'[t].res = 200 =>
                    /\ returns'[r].status = "PICKUP_SCHEDULED"
                    /\ \A o \in DOMAIN orders : \A k \in DOMAIN orders[o].items :
                          orders'[o].items[k].returnRequestId = r =>
                              orders'[o].items[k].returnStatus = "PICKUP_SCHEDULED"]_vars

\* slot t answers a call of handler op in this step
Answers(t, op) ==
    task'[t] # task[t] /\ task'[t].op = op /\ task'[t].pc = "done"

\* after the step, what the call in slot t read of its return request, of
\* the order line and of the stock counter before its first write is still
\* what the store holds
AsBefore(t) ==
    LET l == task'[t]
        r == l.ret
        k == l.item
    IN
    /\ returns'[r].status = l.pre.status
    /\ returns'[r].refundAmount = l.pre.refundAmount
    /\ Len(returns'[r].history) = l.pre.history
    /\ k # 0 =>
          /\ orders'[l.order].items[k].returnStatus = l.pre.line
          /\ products'[orders[l.order].items[k].product].countInStock = l.pre.stock

\* after the step, the status change, the mirror and the restock that the
\* call in slot t was asked for are in the store
Applied(t) ==
    LET l == task'[t]
        r == l.ret
        k == l.item
    IN
    /\ returns'[r].status = l.body.status
    /\ Len(returns'[r].history) = l.pre.history + 1
    /\ k # 0 =>
          /\ orders'[l.order].items[k].returnStatus = l.body.status
          /\ LET p == orders[l.order].items[k].product IN
             l.body.restoreInventory /\ l.body.status \in RestockStatuses
                /\ products[p].exists =>
                   products'[p].countInStock = l.pre.stock + orders[l.order].items[k].qty

\* C32: with requests served one at a time, a cancelOrder, updateReturnStatus
\* or approveRequest call that answers with an error leaves the order, the
\* return request, the stock counter and the approval as they were before the
\* call, and one that answers with success has applied the status change,
\* the mirror, the restock and (for a direct REFUNDED) the financial record
NoPartialSuccess ==
    [][\A t \in Tasks :
          /\ Answers(t, "cancelOrder") =>
                LET o == task'[t].order IN
                /\ task'[t].res = 200 => orders'[o].isCancelled
                /\ task'[t].res = 500 => ~orders'[o].isCancelled
                /\ task'[t].res \in {400, 404} => UNCHANGED <<orders, products>>
          /\ Answers(t, "updateReturnStatus") /\ "pre" \in DOMAIN task'[t] =>
                /\ task'[t].res = 200 =>
                      /\ Applied(t)
                      /\ task'[t].body.status = "REFUNDED" =>
                            Cardinality({i \in DOMAIN fin' : fin'[i].id = task'[t].ret}) =
                                task'[t].pre.refunds + 1
                /\ task'[t].res = 500 => AsBefore(t)
          /\ Answers(t, "approveRequest") /\ "pre" \in DOMAIN task'[t] =>
                /\ task'[t].res = 200 =>
                      /\ Applied(t)
                      /\ approvals'[task'[t].approval].status = "APPROVED"
                /\ task'[t].res = 500 =>
                      /\ AsBefore(t)
                      /\ approvals'[task'[t].approval].status = "PENDING"]_vars

\* slot t takes up a call of approveRequest or rejectRequest in this step
Resolving(t) ==
    /\ Free(t) /\ task'[t] # task[t]
    /\ task'[t].op \in {"approveRequest", "rejectRequest"}

\* C33: an approval whose status is no longer PENDING keeps its status, its
\* resolver and its rejection reason, and an approveRequest or rejectRequest
\* call on it is answered with an error
ResolvedOnce ==
    [][\A a \in DOMAIN approvals :
          approvals[a].status # "PENDING" =>
              /\ approvals'[a].status = approvals[a].status
              /\ approvals'[a].approvedBy = approvals[a].approvedBy
              /\ approvals'[a].rejectionReason = approvals[a].rejectionReason
              /\ \A t \in Tasks :
                    Resolving(t) /\ task'[t].approval = a =>
                        task'[t].pc = "done" /\ task'[t].res >= 400]_vars

\* the call in slot u has executed the APPROVE_RETURN action of approval a:
\* its save of the return request is out
Executed(u, a) ==
    /\ task[u].op = "approveRequest" /\ "ret" \in DOMAIN task[u]
    /\ task[u].approval = a
    /\ task[u].pc # "saveReturn"

\* slot t executes the action of approval a in this step
Executes(t, a) ==
    /\ task[t].op = "approveRequest" /\ task[t].pc = "saveReturn"
    /\ task[t].approval = a
    /\ task'[t].pc # "saveReturn"

\* C34: the action of an approval is executed at most once, whatever the
\* interleaving of the approveRequest and rejectRequest calls on it: no call
\* executes it when another call has executed it already or when the
\* approval is resolved, and no rejected approval has had its action executed
ExecutedOnce ==
    [][\A a \in DOMAIN approvals :
          /\ \A t \in Tasks :
                Executes(t, a) =>
                    /\ approvals[a].status = "PENDING"
                    /\ \A u \in Tasks \ {t} : ~Executed(u, a)
          /\ approvals'[a].status = "REJECTED" =>
                \A u \in Tasks : ~Executed(u, a)']_vars

\* the cancelOrder call in slot u has added line k of order o back to stock
Restocked(u, o, k) ==
    /\ task[u].op = "cancelOrder" /\ task[u].order = o
    /\ \/ task[u].pc = "done" /\ task[u].res = 200
       \/ /\ task[u].pc = "restore" /\ task[u].res # 500
          /\ k \in DOMAIN task[u].items
          /\ k \notin task[u].toRead /\ k \notin DOMAIN task[u].read

\* the cancelOrder call in slot t adds line k of its order back to stock in
\* this step
RestocksLine(t, k) ==
    /\ task[t].op = "cancelOrder" /\ task[t].pc = "restore"
    /\ k \in DOMAIN task[t].read /\ k \notin DOMAIN task'[t].read
    /\ products' # products

\* C35: cancellation restocks an order's lines at most once: a cancelOrder
\* call on a cancelled order is refused and moves no stock counter, and of
\* two overlapping cancelOrder calls on one order only one adds a line's
\* quantity back
CancelRestocksOnce ==
    [][\A t \in Tasks :
          /\ Free(t) /\ task'[t] # task[t] /\ task'[t].op = "cancelOrder"
                /\ task'[t].order \in DOMAIN orders
                /\ orders[task'[t].order].isCancelled =>
                    /\ task'[t].pc = "done" /\ task'[t].res = 400
                    /\ UNCHANGED products
          /\ \A k \in 1..2 :
                RestocksLine(t, k) =>
                    \A u \in Tasks \ {t} : ~Restocked(u, task[t].order, k)]_vars

\* the return status change or approval replay in slot t adds the returned
\* line's quantity back to stock in this step
RestoresLine(t) ==
    /\ task[t].op \in {"updateReturnStatus", "approveRequest"}
    /\ task[t].pc = "writeProduct"
    /\ products' # products

\* C36: inventory is restored at most once per return request: no status
\* change of a return, direct or replayed from an approval, adds the line's
\* quantity back to countInStock when an earlier one has done so already
RestoredOnce ==
    [][\A t \in Tasks :
          RestoresLine(t) =>
              <<task[t].order, task[t].item>> \notin ledger.restored]_vars

(***************************************************************************)
(* The legacy flags and the history of a return: properties                *)
(***************************************************************************)
\* C37: the legacy flags are monotone: no step turns isPaid, isDelivered or
\* isCancelled of an order from true to false, whatever status the order is
\* moved to
FlagsMonotone ==
    [][\A o \in DOMAIN orders :
          /\ orders[o].isPaid => orders'[o].isPaid
          /\ orders[o].isDelivered => orders'[o].isDelivered
          /\ orders[o].isCancelled => orders'[o].isCancelled]_vars

\* an updateOrderStatus or updateOrdersStatusBulk call has been answered
\* with success and has left a delivered order in the earlier status PAID,
\* its isDelivered flag still set
MovedBackFlagKept ==
    \E t \in Tasks, o \in DOMAIN orders :
        /\ task[t].op \in {"updateOrderStatus", "updateOrdersStatusBulk"}
        /\ task[t].pc = "done" /\ task[t].res = 200
        /\ task[t].status = "PAID"
        /\ orders[o].status = "PAID"
        /\ orders[o].isDelivered

\* the last entry of the history of return request r
LastEntry(r) == returns[r].history[Len(returns[r].history)]

\* C38: the history of a ReturnRequest is append-only and tracks its status:
\* no step removes or rewrites an entry, a step that changes the status
\* appends exactly one entry carrying the new status, and after every step
\* the status is the status of the last history entry
HistoryTracksStatus ==
    [][\A r \in DOMAIN returns :
          LET h == returns[r].history
              g == returns'[r].history
          IN
          /\ Len(g) >= Len(h) /\ SubSeq(g, 1, Len(h)) = h
          /\ returns'[r].status # returns[r].status =>
                g = Append(h, returns'[r].status)
          /\ g # <<>> /\ LastEntry(r)' = returns'[r].status]_vars

====
